---- MODULE Spec2Model ----
(***************************************************************************)
(* Model of the model-categorizer service (Microservice/model-categorizer- *)
(* rust): the classifier tables and decision logic, the sort_models        *)
(* comparator, and build_model_hierarchy.                                  *)
(*                                                                         *)
(* Strings are sequences of one-character strings, so that contains,       *)
(* to_lowercase, split_once, len and the byte-wise cmp of the source are   *)
(* computed, not assumed.                                                  *)
(***************************************************************************)
EXTENDS Integers, Sequences, FiniteSets, TLC

VARIABLES
    seed,           \* hash state of the ModelClassifier's tables
    arg,            \* the argument of the call: (model_id, provider_hint) of classify_model,
                    \* the request's models of the hierarchical endpoint
    last,           \* classifier spec: <<metadata>> the last classify_model call returned
    pc,             \* position of the operation in progress
    internal,       \* Vec<InternalModel> of the request being served
    enriched,       \* classify_models: models the enrichment loop has gone through
    sorted,         \* build_model_hierarchy: the sorted clone (sort spec: output)
    resorted,       \* sort spec: output of sorting `sorted` again
    root_groups,    \* build_model_hierarchy: the tree built so far
    provider_idx,   \* build_model_hierarchy: Option of the open provider group's index
    type_idx,       \* build_model_hierarchy: Option of the open type group's index
    version_idx     \* build_model_hierarchy: Option of the open version group's index

vars == <<seed, arg, last, pc, internal, enriched, sorted, resorted, root_groups,
          provider_idx, type_idx, version_idx>>

(***************************************************************************)
(* Bounds                                                                  *)
(***************************************************************************)
\* Hash states explored: tables iterate in insertion order rotated by the state.
MaxSeed == 6
\* Longest request (number of models) of the hierarchical endpoint.
MaxModels == 3
\* Longest list handed to sort_models in the sort specification.
MaxSortLen == 3
\* Hash states explored for the handler's classifier.
MaxHandlerSeed == 1

(***************************************************************************)
(* Characters and strings                                                  *)
(***************************************************************************)
\* The characters used, in ascending byte order.
Ascii ==
    <<" ", "-", ".", "/", "0", "1", "2", "3", "4", "5", "6", "7", "8", "9",
      "A", "B", "C", "D", "E", "F", "G", "H", "I", "J", "K", "L", "M", "N",
      "O", "P", "Q", "R", "S", "T", "U", "V", "W", "X", "Y", "Z",
      "a", "b", "c", "d", "e", "f", "g", "h", "i", "j", "k", "l", "m", "n",
      "o", "p", "q", "r", "s", "t", "u", "v", "w", "x", "y", "z">>

UpperChars == <<"A","B","C","D","E","F","G","H","I","J","K","L","M","N","O","P","Q","R","S","T","U","V","W","X","Y","Z">>
LowerChars == <<"a","b","c","d","e","f","g","h","i","j","k","l","m","n","o","p","q","r","s","t","u","v","w","x","y","z">>
DigitChars == <<"0","1","2","3","4","5","6","7","8","9">>

Range(s) == {s[i] : i \in 1..Len(s)}

IndexOf(s, c) == CHOOSE i \in 1..Len(s) : s[i] = c

\* Byte order of a character.
Code == [c \in Range(Ascii) |-> IndexOf(Ascii, c)]

LowerOf == [c \in Range(Ascii) |->
              IF c \in Range(UpperChars) THEN LowerChars[IndexOf(UpperChars, c)] ELSE c]

\* str::to_lowercase
to_lowercase(s) == [i \in 1..Len(s) |-> LowerOf[s[i]]]

\* str::contains(&str)
contains(s, pat) ==
    \E i \in 0..(Len(s) - Len(pat)) : SubSeq(s, i + 1, i + Len(pat)) = pat

\* str::starts_with
starts_with(s, pat) == Len(pat) <= Len(s) /\ SubSeq(s, 1, Len(pat)) = pat

\* str::split_once('/'): <<before, after>> of the first '/', or <<>> when there is none
split_once(s) ==
    LET at == {i \in 1..Len(s) : s[i] = "/"}
    IN  IF at = {} THEN <<>>
        ELSE LET i == CHOOSE j \in at : \A k \in at : j <= k
             IN  <<SubSeq(s, 1, i - 1), SubSeq(s, i + 1, Len(s))>>

\* Ord for str: byte-wise lexicographic; -1 Less, 0 Equal, 1 Greater
RECURSIVE str_cmp(_, _)
str_cmp(a, b) ==
    IF a = <<>> THEN (IF b = <<>> THEN 0 ELSE -1)
    ELSE IF b = <<>> THEN 1
    ELSE IF Code[Head(a)] < Code[Head(b)] THEN -1
    ELSE IF Code[Head(a)] > Code[Head(b)] THEN 1
    ELSE str_cmp(Tail(a), Tail(b))

\* Ord::cmp on integers and on bools (false < true)
int_cmp(x, y) == IF x < y THEN -1 ELSE IF x > y THEN 1 ELSE 0

bool_cmp(x, y) == int_cmp(IF x THEN 1 ELSE 0, IF y THEN 1 ELSE 0)

\* format!("{} {}", a, b)
fmt2(a, b) == a \o <<" ">> \o b

(***************************************************************************)
(* classifiers/mod.rs: constants                                           *)
(***************************************************************************)
PROVIDER_OPENAI == <<"o","p","e","n","a","i">>
PROVIDER_ANTHROPIC == <<"a","n","t","h","r","o","p","i","c">>
PROVIDER_GEMINI == <<"g","e","m","i","n","i">>
PROVIDER_META == <<"m","e","t","a">>
PROVIDER_MISTRAL == <<"m","i","s","t","r","a","l">>
PROVIDER_OTHER == <<"o","t","h","e","r">>
PROVIDER_OPENROUTER == <<"o","p","e","n","r","o","u","t","e","r">>

SERIES_CLAUDE3 == <<"C","l","a","u","d","e"," ","3">>
SERIES_CLAUDE2 == <<"C","l","a","u","d","e"," ","2">>
SERIES_CLAUDE1 == <<"C","l","a","u","d","e"," ","1">>

TYPE_O == <<"O"," ","S","e","r","i","e","s">>
TYPE_35 == <<"G","P","T"," ","3",".","5">>
TYPE_4 == <<"G","P","T"," ","4">>
TYPE_45 == <<"G","P","T"," ","4",".","5">>
TYPE_MINI == <<"M","i","n","i">>
TYPE_OPUS == <<"O","p","u","s">>
TYPE_SONNET == <<"S","o","n","n","e","t">>
TYPE_HAIKU == <<"H","a","i","k","u">>
TYPE_THINKING == <<"T","h","i","n","k","i","n","g">>
TYPE_PRO == <<"P","r","o">>
TYPE_GEMMA == <<"G","e","m","m","a">>
TYPE_FLASH_LITE == <<"F","l","a","s","h"," ","L","i","t","e">>
TYPE_FLASH == <<"F","l","a","s","h">>
TYPE_VISION == <<"V","i","s","i","o","n">>
TYPE_STANDARD == <<"S","t","a","n","d","a","r","d">>
TYPE_EMBEDDING == <<"E","m","b","e","d","d","i","n","g">>
TYPE_IMAGE == <<"I","m","a","g","e"," ","G","e","n","e","r","a","t","i","o","n">>

VERSION_10 == <<"1",".","0">>
VERSION_15 == <<"1",".","5">>
VERSION_20 == <<"2",".","0">>
VERSION_25 == <<"2",".","5">>
VERSION_30 == <<"3",".","0">>
VERSION_35 == <<"3",".","5">>
VERSION_37 == <<"3",".","7">>
VERSION_40 == <<"4",".","0">>
VERSION_45 == <<"4",".","5">>

CAP_VISION == <<"v","i","s","i","o","n">>
CAP_FUNCTION_CALLING == <<"f","u","n","c","t","i","o","n","-","c","a","l","l","i","n","g">>
CAP_EMBEDDING == <<"e","m","b","e","d","d","i","n","g">>
CAP_CHAT == <<"c","h","a","t">>

(***************************************************************************)
(* Hash tables.  A HashMap is its entries in insertion order; iterating it *)
(* starts at an entry fixed by the map's hash state and wraps around.      *)
(***************************************************************************)
HashSeeds == 0..MaxSeed

\* HashMap iteration (for (k, v) in &map, map.keys(), map.into_iter())
iter(table, s) ==
    LET n == Len(table)
    IN  [i \in 1..n |-> table[((i - 1 + s) % n) + 1]]

\* The first index of a non-empty set of indices.
MinOf(S) == CHOOSE i \in S : \A j \in S : i <= j

\* PatternMatcher::new: provider_patterns
provider_patterns ==
    << <<PROVIDER_OPENAI, <<<<"o","p","e","n","a","i">>, <<"g","p","t">>, <<"o","1">>, <<"d","a","l","l","-","e">>>> >>,
       <<PROVIDER_ANTHROPIC, <<<<"a","n","t","h","r","o","p","i","c">>, <<"c","l","a","u","d","e">>>> >>,
       <<PROVIDER_GEMINI, <<<<"g","e","m","i","n","i">>, <<"g","o","o","g","l","e">>>> >>,
       <<PROVIDER_META, <<<<"m","e","t","a">>, <<"l","l","a","m","a">>, <<"m","e","t","a","-","l","l","a","m","a">>>> >>,
       <<PROVIDER_MISTRAL, <<<<"m","i","s","t","r","a","l">>, <<"m","i","x","t","r","a","l">>>> >>,
       <<PROVIDER_OPENROUTER, <<<<"o","p","e","n","r","o","u","t","e","r">>>> >> >>

\* PatternMatcher::new: series_patterns
series_patterns ==
    << <<SERIES_CLAUDE3, <<<<"c","l","a","u","d","e","-","3">>, <<"c","l","a","u","d","e","3">>, <<"c","l","a","u","d","e","-","3",".","5">>, <<"c","l","a","u","d","e","-","3",".","7">>>> >>,
       <<SERIES_CLAUDE2, <<<<"c","l","a","u","d","e","-","2">>, <<"c","l","a","u","d","e","2">>>> >>,
       <<SERIES_CLAUDE1, <<<<"c","l","a","u","d","e","-","1">>, <<"c","l","a","u","d","e","1">>, <<"c","l","a","u","d","e","-","i","n","s","t","a","n","t">>>> >>,
       <<fmt2(<<"G","e","m","i","n","i">>, VERSION_10), <<<<"g","e","m","i","n","i","-","1",".","0">>, <<"g","e","m","i","n","i","-","1",".","0","-","p","r","o">>>> >>,
       <<fmt2(<<"G","e","m","i","n","i">>, VERSION_15), <<<<"g","e","m","i","n","i","-","1",".","5">>, <<"g","e","m","i","n","i","-","1",".","5","-","p","r","o">>, <<"g","e","m","i","n","i","-","1",".","5","-","f","l","a","s","h">>>> >>,
       <<fmt2(<<"G","e","m","i","n","i">>, VERSION_20), <<<<"g","e","m","i","n","i","-","2",".","0">>, <<"g","e","m","i","n","i","-","2",".","0","-","p","r","o">>, <<"g","e","m","i","n","i","-","2",".","0","-","f","l","a","s","h">>>> >>,
       <<fmt2(<<"G","e","m","i","n","i">>, VERSION_25), <<<<"g","e","m","i","n","i","-","2",".","5">>, <<"g","e","m","i","n","i","-","2",".","5","-","p","r","o">>, <<"g","e","m","i","n","i","-","2",".","5","-","f","l","a","s","h">>>> >>,
       <<<<"G","e","m","m","a"," ","2">>, <<<<"g","e","m","m","a","-","2">>>> >>,
       <<TYPE_IMAGE, <<<<"d","a","l","l","-","e">>, <<"i","m","a","g","e","n">>, <<"m","i","d","j","o","u","r","n","e","y">>, <<"s","t","a","b","l","e","-","d","i","f","f","u","s","i","o","n">>>> >>,
       <<TYPE_EMBEDDING, <<<<"e","m","b","e","d","d","i","n","g">>, <<"t","e","x","t","-","e","m","b","e","d","d","i","n","g">>, <<"e","m","b","e","d">>>> >> >>

\* PatternMatcher::new: type_patterns
type_patterns ==
    << <<TYPE_O, <<<<"o","1">>, <<"o","3">>, <<"o","4">>>> >>,
       <<TYPE_35, <<<<"g","p","t","-","3",".","5">>, <<"g","p","t","3",".","5">>>> >>,
       <<TYPE_4, <<<<"g","p","t","-","4">>, <<"g","p","t","4">>, <<"g","p","t","-","4","o">>>> >>,
       <<TYPE_45, <<<<"g","p","t","-","4",".","5">>, <<"g","p","t","4",".","5">>>> >>,
       <<TYPE_MINI, <<<<"m","i","n","i">>>> >>,
       <<TYPE_OPUS, <<<<"o","p","u","s">>>> >>,
       <<TYPE_SONNET, <<<<"s","o","n","n","e","t">>>> >>,
       <<TYPE_HAIKU, <<<<"h","a","i","k","u">>>> >>,
       <<TYPE_PRO, <<<<"p","r","o">>>> >>,
       <<TYPE_FLASH_LITE, <<<<"f","l","a","s","h","-","l","i","t","e">>>> >>,
       <<TYPE_FLASH, <<<<"f","l","a","s","h">>>> >>,
       <<TYPE_THINKING, <<<<"t","h","i","n","k","i","n","g">>>> >>,
       <<TYPE_VISION, <<<<"v","i","s","i","o","n">>, <<"m","u","l","t","i","m","o","d","a","l">>>> >>,
       <<TYPE_EMBEDDING, <<<<"e","m","b","e","d","d","i","n","g">>, <<"e","m","b","e","d">>, <<"t","t","s">>>> >> >>

\* ContextResolver::new: context_sizes
context_sizes ==
    << <<<<"g","p","t","-","4","o">>, 128000>>,
       <<<<"g","p","t","-","4","o","-","m","i","n","i">>, 128000>>,
       <<<<"g","p","t","-","4","-","t","u","r","b","o">>, 128000>>,
       <<<<"g","p","t","-","4","-","v","i","s","i","o","n">>, 128000>>,
       <<<<"g","p","t","-","4","-","3","2","k">>, 32768>>,
       <<<<"g","p","t","-","4">>, 8192>>,
       <<<<"g","p","t","-","4",".","5">>, 128000>>,
       <<<<"g","p","t","-","3",".","5","-","t","u","r","b","o","-","1","6","k">>, 16385>>,
       <<<<"g","p","t","-","3",".","5","-","t","u","r","b","o">>, 4096>>,
       <<<<"o","1">>, 32768>>,
       <<<<"o","1","-","m","i","n","i">>, 32768>>,
       <<<<"c","l","a","u","d","e","-","3","-","o","p","u","s">>, 200000>>,
       <<<<"c","l","a","u","d","e","-","3","-","s","o","n","n","e","t">>, 200000>>,
       <<<<"c","l","a","u","d","e","-","3","-","h","a","i","k","u">>, 200000>>,
       <<<<"c","l","a","u","d","e","-","3",".","5","-","s","o","n","n","e","t">>, 200000>>,
       <<<<"c","l","a","u","d","e","-","3",".","7","-","o","p","u","s">>, 200000>>,
       <<<<"c","l","a","u","d","e","-","2">>, 100000>>,
       <<<<"c","l","a","u","d","e","-","i","n","s","t","a","n","t">>, 100000>>,
       <<<<"g","e","m","i","n","i","-","1",".","0","-","p","r","o">>, 32768>>,
       <<<<"g","e","m","i","n","i","-","1",".","5","-","p","r","o">>, 1000000>>,
       <<<<"g","e","m","i","n","i","-","1",".","5","-","f","l","a","s","h">>, 1000000>>,
       <<<<"g","e","m","i","n","i","-","2",".","0","-","p","r","o">>, 2000000>>,
       <<<<"g","e","m","i","n","i","-","2",".","0","-","f","l","a","s","h">>, 1000000>>,
       <<<<"g","e","m","i","n","i","-","2",".","0","-","f","l","a","s","h","-","l","i","t","e">>, 1000000>> >>

\* "for (key, patterns) in &table { for pat in patterns { if lower.contains(pat)
\* { return key } } }": the key of the first entry, in iteration order, one of
\* whose patterns the name contains; "" when there is none.
first_key_by_pattern(table, s, lower) ==
    LET it == iter(table, s)
        hits == {i \in 1..Len(it) : \E k \in 1..Len(it[i][2]) : contains(lower, it[i][2][k])}
    IN  IF hits = {} THEN <<>> ELSE it[MinOf(hits)][1]

(***************************************************************************)
(* classifiers/pattern_matcher.rs                                          *)
(***************************************************************************)
match_provider_by_name(s, provider_name) ==
    LET it == iter(provider_patterns, s)
        hits == {i \in 1..Len(it) : provider_name = to_lowercase(it[i][1])}
    IN  IF hits = {} THEN <<>> ELSE it[MinOf(hits)][1]

match_provider_by_pattern(s, model_name) ==
    first_key_by_pattern(provider_patterns, s, to_lowercase(model_name))

\* self.series_patterns[key]
patterns_of(table, key) ==
    table[CHOOSE i \in 1..Len(table) : table[i][1] = key][2]

contains_any_pattern(lower, pats) == \E k \in 1..Len(pats) : contains(lower, pats[k])

match_claude_version(model_name) ==
    LET lower == to_lowercase(model_name)
    IN  IF contains_any_pattern(lower, patterns_of(series_patterns, SERIES_CLAUDE3))
            THEN SERIES_CLAUDE3
        ELSE IF contains_any_pattern(lower, patterns_of(series_patterns, SERIES_CLAUDE2))
            THEN SERIES_CLAUDE2
        ELSE IF contains_any_pattern(lower, patterns_of(series_patterns, SERIES_CLAUDE1))
            THEN SERIES_CLAUDE1
        ELSE <<>>

match_gemini_version(model_name) ==
    LET lower == to_lowercase(model_name)
    IN  IF contains(lower, <<"2",".","5">>) THEN fmt2(<<"G","e","m","i","n","i">>, VERSION_25)
        ELSE IF contains(lower, <<"2",".","0">>) THEN fmt2(<<"G","e","m","i","n","i">>, VERSION_20)
        ELSE IF contains(lower, <<"1",".","5">>) THEN fmt2(<<"G","e","m","i","n","i">>, VERSION_15)
        ELSE fmt2(<<"G","e","m","i","n","i">>, VERSION_10)

match_series_by_pattern(s, model_name) ==
    first_key_by_pattern(series_patterns, s, to_lowercase(model_name))

match_openai_type(model_name) ==
    LET lower == to_lowercase(model_name)
    IN  IF contains(lower, <<"m","i","n","i">>) THEN TYPE_MINI
        ELSE IF contains(lower, <<"o","1">>) \/ contains(lower, <<"o","3">>) THEN TYPE_O
        ELSE IF contains(lower, <<"g","p","t","-","4",".","5">>) THEN TYPE_45
        ELSE IF contains(lower, <<"g","p","t","-","4">>) THEN TYPE_4
        ELSE IF contains(lower, <<"g","p","t","-","3",".","5">>) THEN TYPE_35
        ELSE TYPE_STANDARD

match_anthropic_type(model_name) ==
    LET lower == to_lowercase(model_name)
    IN  IF contains(lower, <<"o","p","u","s">>) THEN TYPE_OPUS
        ELSE IF contains(lower, <<"s","o","n","n","e","t">>) THEN TYPE_SONNET
        ELSE IF contains(lower, <<"h","a","i","k","u">>) THEN TYPE_HAIKU
        ELSE TYPE_STANDARD

match_gemini_type(model_name) ==
    LET lower == to_lowercase(model_name)
    IN  IF contains(lower, <<"f","l","a","s","h","-","l","i","t","e">>) THEN TYPE_FLASH_LITE
        ELSE IF contains(lower, <<"t","h","i","n","k","i","n","g">>) THEN TYPE_THINKING
        ELSE IF contains(lower, <<"f","l","a","s","h">>) THEN TYPE_FLASH
        ELSE IF contains(lower, <<"p","r","o">>) THEN TYPE_PRO
        ELSE IF contains(lower, <<"g","e","m","m","a">>) THEN TYPE_GEMMA
        ELSE TYPE_STANDARD

match_type_by_pattern(s, model_name) ==
    first_key_by_pattern(type_patterns, s, to_lowercase(model_name))

match_openai_variant(model_name) ==
    LET lower == to_lowercase(model_name)
    IN  IF contains(lower, <<"g","p","t","-","4",".","5">>) THEN <<"G","P","T","-">> \o VERSION_45
        ELSE IF contains(lower, <<"g","p","t","-","4","o","-","m","i","n","i">>) THEN <<"G","P","T","-","4","o"," ","M","i","n","i">>
        ELSE IF contains(lower, <<"g","p","t","-","4","o">>) THEN <<"G","P","T","-","4","o">>
        ELSE IF contains(lower, <<"g","p","t","-","4","-","t","u","r","b","o">>) THEN <<"G","P","T","-","4"," ","T","u","r","b","o">>
        ELSE IF contains(lower, <<"g","p","t","-","4","-","v","i","s","i","o","n">>) THEN <<"G","P","T","-","4"," ","V","i","s","i","o","n">>
        ELSE IF contains(lower, <<"o","1","-","m","i","n","i">>) THEN <<"O","1"," ","M","i","n","i">>
        ELSE IF contains(lower, <<"o","1">>) THEN <<"O","1">>
        ELSE <<>>

\* Faulty variant: the "claude-3" rule is missing.
match_anthropic_variant_without_claude3(model_name) ==
    LET lower == to_lowercase(model_name)
    IN  IF contains(lower, <<"c","l","a","u","d","e","-","3",".","7">>) THEN fmt2(<<"C","l","a","u","d","e">>, VERSION_37)
        ELSE IF contains(lower, <<"c","l","a","u","d","e","-","3",".","5">>) THEN fmt2(<<"C","l","a","u","d","e">>, VERSION_35)
        ELSE IF contains(lower, <<"c","l","a","u","d","e","-","2">>) THEN fmt2(<<"C","l","a","u","d","e">>, VERSION_20)
        ELSE IF contains(lower, <<"c","l","a","u","d","e","-","i","n","s","t","a","n","t">>) THEN <<"C","l","a","u","d","e"," ","I","n","s","t","a","n","t">>
        ELSE <<>>

match_anthropic_variant(model_name) ==
    LET lower == to_lowercase(model_name)
    IN  IF contains(lower, <<"c","l","a","u","d","e","-","3",".","7">>) THEN fmt2(<<"C","l","a","u","d","e">>, VERSION_37)
        ELSE IF contains(lower, <<"c","l","a","u","d","e","-","3",".","5">>) THEN fmt2(<<"C","l","a","u","d","e">>, VERSION_35)
        ELSE IF contains(lower, <<"c","l","a","u","d","e","-","3">>) THEN fmt2(<<"C","l","a","u","d","e">>, VERSION_30)
        ELSE IF contains(lower, <<"c","l","a","u","d","e","-","2">>) THEN fmt2(<<"C","l","a","u","d","e">>, VERSION_20)
        ELSE IF contains(lower, <<"c","l","a","u","d","e","-","i","n","s","t","a","n","t">>) THEN <<"C","l","a","u","d","e"," ","I","n","s","t","a","n","t">>
        ELSE <<>>

build_gemini_variant(model_name) ==
    LET lower == to_lowercase(model_name)
        version == IF contains(lower, <<"2",".","5">>) THEN VERSION_25
                   ELSE IF contains(lower, <<"2",".","0">>) THEN VERSION_20
                   ELSE IF contains(lower, <<"1",".","5">>) THEN VERSION_15
                   ELSE IF contains(lower, <<"1",".","0">>) THEN VERSION_10
                   ELSE <<>>
        typ == IF contains(lower, <<"f","l","a","s","h","-","l","i","t","e">>) THEN TYPE_FLASH_LITE
               ELSE IF contains(lower, <<"t","h","i","n","k","i","n","g">>) THEN TYPE_THINKING
               ELSE IF contains(lower, <<"f","l","a","s","h">>) THEN TYPE_FLASH
               ELSE IF contains(lower, <<"p","r","o">>) THEN TYPE_PRO
               ELSE <<>>
    IN  IF version # <<>> /\ typ # <<>> THEN <<"G","e","m","i","n","i"," ">> \o version \o <<" ">> \o typ
        ELSE IF version # <<>> THEN <<"G","e","m","i","n","i"," ">> \o version
        ELSE IF typ # <<>> THEN <<"G","e","m","i","n","i"," ">> \o typ
        ELSE <<>>

\* The keys add_capabilities inserts into the caps map, in insertion order.
add_capabilities(model_type, model_name, provider, series) ==
    LET lower == to_lowercase(model_name)
        vision == \/ contains(lower, <<"v","i","s","i","o","n">>)
                  \/ contains(lower, <<"m","u","l","t","i","m","o","d","a","l">>)
                  \/ model_type \in {TYPE_4, TYPE_45, TYPE_O}
                  \/ series = SERIES_CLAUDE3
                  \/ contains(lower, <<"4","o">>)
                  \/ starts_with(series, <<"G","e","m","i","n","i">>)
        fcall == \/ model_type \in {TYPE_4, TYPE_45, TYPE_35, TYPE_O}
                 \/ series = SERIES_CLAUDE3
                 \/ starts_with(series, <<"G","e","m","i","n","i">>)
    IN  (IF vision THEN <<CAP_VISION>> ELSE <<>>)
        \o (IF fcall THEN <<CAP_FUNCTION_CALLING>> ELSE <<>>)

(***************************************************************************)
(* classifiers/context_resolver.rs                                         *)
(***************************************************************************)
\* Faulty variant: the default of the family heuristics is -1 ("not found") instead of 0.
get_context_size_by_family_minus_one(lower) ==
    IF contains(lower, <<"g","p","t","-","4">>) THEN 8192
    ELSE IF contains(lower, <<"g","p","t","-","3",".","5">>) THEN 4096
    ELSE IF contains(lower, <<"c","l","a","u","d","e","-","3">>) THEN 200000
    ELSE IF contains(lower, <<"c","l","a","u","d","e","-","2">>) \/ contains(lower, <<"c","l","a","u","d","e","-","i","n","s","t","a","n","t">>) THEN 100000
    ELSE IF contains(lower, <<"g","e","m","i","n","i","-","1",".","0">>) THEN 32768
    ELSE IF contains(lower, <<"g","e","m","i","n","i","-","1",".","5">>) \/ contains(lower, <<"g","e","m","i","n","i","-","2",".","0">>) THEN 1000000
    ELSE -1

get_context_size_by_family(lower) ==
    IF contains(lower, <<"g","p","t","-","4",".","5">>) THEN 128000
    ELSE IF contains(lower, <<"g","p","t","-","4">>) THEN
        (IF contains(lower, <<"3","2","k">>) THEN 32768
         ELSE IF contains(lower, <<"t","u","r","b","o">>) \/ contains(lower, <<"o">>) THEN 128000
         ELSE 8192)
    ELSE IF contains(lower, <<"g","p","t","-","3",".","5">>) THEN
        (IF contains(lower, <<"1","6","k">>) THEN 16385 ELSE 4096)
    ELSE IF contains(lower, <<"c","l","a","u","d","e","-","3">>) THEN 200000
    ELSE IF contains(lower, <<"c","l","a","u","d","e","-","2">>) \/ contains(lower, <<"c","l","a","u","d","e","-","i","n","s","t","a","n","t">>) THEN 100000
    ELSE IF contains(lower, <<"g","e","m","i","n","i","-","1",".","0">>) THEN 32768
    ELSE IF contains(lower, <<"g","e","m","i","n","i","-","1",".","5">>) \/ contains(lower, <<"g","e","m","i","n","i","-","2",".","0">>) THEN
        (IF contains(lower, <<"f","l","a","s","h","-","l","i","t","e">>) \/ contains(lower, <<"f","l","a","s","h">>) \/ contains(lower, <<"p","r","o">>)
         THEN 1000000 ELSE 1000000)
    ELSE 0

get_context_size(s, model_id) ==
    LET lower == to_lowercase(model_id)
        it == iter(context_sizes, s)
        hits == {i \in 1..Len(it) : contains(lower, it[i][1])}
    IN  IF hits # {} THEN it[MinOf(hits)][2]
        ELSE get_context_size_by_family(lower)

(***************************************************************************)
(* classifiers/classifier.rs                                               *)
(***************************************************************************)
\* The maximal runs of digits and dots of s (chars mapped, split_whitespace).
RECURSIVE version_tokens(_, _)
version_tokens(s, cur) ==
    IF s = <<>> THEN (IF cur = <<>> THEN <<>> ELSE <<cur>>)
    ELSE IF Head(s) \in Range(DigitChars) \/ Head(s) = "."
        THEN version_tokens(Tail(s), Append(cur, Head(s)))
    ELSE (IF cur = <<>> THEN <<>> ELSE <<cur>>) \o version_tokens(Tail(s), <<>>)

RECURSIVE strip_zeros(_)
strip_zeros(d) == IF d # <<>> /\ Head(d) = "0" THEN strip_zeros(Tail(d)) ELSE d

RECURSIVE digits_value(_, _)
digits_value(d, acc) ==
    IF d = <<>> THEN acc
    ELSE digits_value(Tail(d), 10 * acc + (IndexOf(DigitChars, Head(d)) - 1))

\* part.parse::<i32>().ok(): <<n>>, or <<>> when the part is no i32
parse_i32(part) ==
    LET d == strip_zeros(part)
    IN  IF \E i \in 1..Len(part) : part[i] = "." THEN <<>>
        ELSE IF Len(d) > 10 THEN <<>>
        ELSE IF Len(d) = 10 /\ str_cmp(d, <<"2","1","4","7","4","8","3","6","4","7">>) > 0 THEN <<>>
        ELSE <<digits_value(d, 0)>>

RECURSIVE int_to_string(_)
int_to_string(n) ==
    IF n < 10 THEN <<DigitChars[n + 1]>>
    ELSE Append(int_to_string(n \div 10), DigitChars[(n % 10) + 1])

RECURSIVE filter_map_i32(_)
filter_map_i32(parts) ==
    IF parts = <<>> THEN <<>>
    ELSE parse_i32(Head(parts)) \o filter_map_i32(Tail(parts))

extract_version_numbers(s) == filter_map_i32(version_tokens(s, <<>>))

RECURSIVE join_dot(_)
join_dot(vs) ==
    IF vs = <<>> THEN <<>>
    ELSE IF Len(vs) = 1 THEN vs[1]
    ELSE vs[1] \o <<".">> \o join_dot(Tail(vs))

extract_version_variant(model_name, series) ==
    LET nums == extract_version_numbers(model_name)
        vs == [i \in 1..Len(nums) |-> int_to_string(nums[i])]
    IN  IF nums = <<>> THEN <<>> ELSE fmt2(series, join_dot(vs))

\* Faulty variant: pattern containment is tried before the id's "/" prefix.
determine_provider_pattern_first(s, model_name, provider_hint) ==
    LET byHint == IF provider_hint # <<>>
                  THEN match_provider_by_name(s, to_lowercase(provider_hint))
                  ELSE <<>>
        so == split_once(model_name)
        byPrefix == IF so # <<>>
                    THEN match_provider_by_name(s, to_lowercase(so[1]))
                    ELSE <<>>
        byPattern == match_provider_by_pattern(s, model_name)
    IN  IF byHint # <<>> THEN byHint
        ELSE IF byPattern # <<>> THEN byPattern
        ELSE IF byPrefix # <<>> THEN byPrefix
        ELSE PROVIDER_OTHER

determine_provider(s, model_name, provider_hint) ==
    LET byHint == IF provider_hint # <<>>
                  THEN match_provider_by_name(s, to_lowercase(provider_hint))
                  ELSE <<>>
        so == split_once(model_name)
        byPrefix == IF so # <<>>
                    THEN match_provider_by_name(s, to_lowercase(so[1]))
                    ELSE <<>>
        byPattern == match_provider_by_pattern(s, model_name)
    IN  IF byHint # <<>> THEN byHint
        ELSE IF byPrefix # <<>> THEN byPrefix
        ELSE IF byPattern # <<>> THEN byPattern
        ELSE PROVIDER_OTHER

\* Faulty variant: no "General" fallback.
generic_series_without_fallback(s, model_name) == match_series_by_pattern(s, model_name)

generic_series(s, model_name) ==
    LET v == match_series_by_pattern(s, model_name)
    IN  IF v # <<>> THEN v ELSE <<"G","e","n","e","r","a","l">>

determine_series(s, model_name, provider) ==
    IF provider = PROVIDER_OPENAI THEN
        (IF model_name # <<>> /\ Head(model_name) = "o" THEN <<"O">>
         ELSE IF model_name # <<>> /\ Head(model_name) = "g" THEN <<"G","P","T">>
         ELSE IF model_name # <<>> /\ Head(model_name) = "d" THEN <<"D","A","L","L","-","E">>
         ELSE generic_series(s, model_name))
    ELSE IF provider = PROVIDER_ANTHROPIC THEN
        (IF match_claude_version(model_name) # <<>> THEN match_claude_version(model_name)
         ELSE generic_series(s, model_name))
    ELSE IF provider = PROVIDER_GEMINI THEN match_gemini_version(model_name)
    ELSE generic_series(s, model_name)

determine_type(s, model_name, provider, series) ==
    IF provider = PROVIDER_OPENAI THEN match_openai_type(model_name)
    ELSE IF provider = PROVIDER_ANTHROPIC THEN match_anthropic_type(model_name)
    ELSE IF provider = PROVIDER_GEMINI THEN match_gemini_type(model_name)
    ELSE LET t == match_type_by_pattern(s, model_name)
         IN  IF t # <<>> THEN t ELSE TYPE_STANDARD

determine_variant(model_name, provider, series) ==
    LET v == IF provider = PROVIDER_OPENAI THEN match_openai_variant(model_name)
             ELSE IF provider = PROVIDER_ANTHROPIC THEN match_anthropic_variant(model_name)
             ELSE IF provider = PROVIDER_GEMINI THEN build_gemini_variant(model_name)
             ELSE <<>>
        f == extract_version_variant(model_name, series)
    IN  IF v # <<>> THEN v
        ELSE IF f # <<>> THEN f
        ELSE series

\* |a, b| a.to_lowercase().cmp(&b.to_lowercase())
cmp_lowercase(a, b) == str_cmp(to_lowercase(a), to_lowercase(b))

\* One insertion of the stable sort: x moves left past every element it is Less than.
RECURSIVE insert_cap(_, _)
insert_cap(pre, x) ==
    IF pre # <<>> /\ cmp_lowercase(x, pre[Len(pre)]) < 0
    THEN Append(insert_cap(SubSeq(pre, 1, Len(pre) - 1), x), pre[Len(pre)])
    ELSE Append(pre, x)

RECURSIVE sort_caps_from(_, _)
sort_caps_from(done, rest) ==
    IF rest = <<>> THEN done
    ELSE sort_caps_from(insert_cap(done, Head(rest)), Tail(rest))

\* Faulty variant: the list is returned as the map iterated, without sorting.
sort_caps_skipped(caps_list) == caps_list

\* caps_list.sort_by(|a, b| a.to_lowercase().cmp(&b.to_lowercase()))
sort_caps(caps_list) == sort_caps_from(<<>>, caps_list)

\* The orders in which a map of at most three entries can iterate.
CapOrders ==
    <<<<1, 2, 3>>, <<1, 3, 2>>, <<2, 1, 3>>, <<2, 3, 1>>, <<3, 1, 2>>, <<3, 2, 1>>>>

\* caps.into_iter().filter(|(_, v)| *v).map(|(k, _)| k).collect(), the call's own
\* map iterating in its k-th order
caps_into_iter(caps, k) ==
    LET ord == SelectSeq(CapOrders[k], LAMBDA i : i <= Len(caps))
    IN  [i \in 1..Len(caps) |-> caps[ord[i]]]

\* Faulty variant: the baseline "chat" capability is not inserted.
detect_capabilities_without_chat(s, k, model_name, provider, series) ==
    LET caps == add_capabilities(determine_type(s, model_name, provider, series),
                                 model_name, provider, series)
    IN  sort_caps(caps_into_iter(caps, k))

detect_capabilities(s, k, model_name, provider, series) ==
    LET added == add_capabilities(determine_type(s, model_name, provider, series),
                                  model_name, provider, series)
        caps == Append(added, CAP_CHAT)
        caps_list == caps_into_iter(caps, k)
    IN  sort_caps(caps_list)

\* Faulty variant: the keyword "embed" is missing.
is_embedding_model_without_embed(model_name) ==
    contains(model_name, <<"e","m","b","e","d","d","i","n","g">>) \/ contains(model_name, <<"t","e","x","t","-","e","m","b","e","d","d","i","n","g">>)

is_embedding_model(model_name) ==
    contains(model_name, <<"e","m","b","e","d","d","i","n","g">>) \/ contains(model_name, <<"e","m","b","e","d">>)
        \/ contains(model_name, <<"t","e","x","t","-","e","m","b","e","d","d","i","n","g">>)

is_image_generation_model(model_name) ==
    contains(model_name, <<"i","m","a","g","e">>) \/ contains(model_name, <<"d","a","l","l","-","e">>)
        \/ contains(model_name, <<"s","t","a","b","l","e","-","d","i","f","f","u","s","i","o","n">>)

\* Faulty variant: only the series is looked at.
is_multimodal_series_only(model_name, caps, series) == contains(series, <<"V","i","s","i","o","n">>)

is_multimodal(model_name, caps, series) ==
    (\E i \in 1..Len(caps) : caps[i] = CAP_VISION) \/ contains(series, <<"V","i","s","i","o","n">>)

\* Faulty variant: the keyword "beta" is missing.
is_experimental_without_beta(model_name) ==
    contains(model_name, <<"a","l","p","h","a">>) \/ contains(model_name, <<"e","x","p","e","r","i","m","e","n","t","a","l">>)

is_experimental(model_name) ==
    contains(model_name, <<"a","l","p","h","a">>) \/ contains(model_name, <<"b","e","t","a">>)
        \/ contains(model_name, <<"e","x","p","e","r","i","m","e","n","t","a","l">>)

create_image_generation_metadata(s, model_name, provider_hint) ==
    [provider |-> determine_provider(s, model_name, provider_hint),
     series |-> TYPE_IMAGE,
     model_type |-> TYPE_IMAGE,
     variant |-> <<"I","m","a","g","e"," ","G","e","n","e","r","a","t","i","o","n">>,
     context |-> 0,
     capabilities |-> <<TYPE_IMAGE>>,
     is_multimodal |-> FALSE,
     is_experimental |-> FALSE,
     display_name |-> model_name]

create_embedding_model_metadata(s, model_name, provider_hint) ==
    [provider |-> determine_provider(s, model_name, provider_hint),
     series |-> TYPE_EMBEDDING,
     model_type |-> TYPE_EMBEDDING,
     variant |-> <<"E","m","b","e","d","d","i","n","g">>,
     context |-> 0,
     capabilities |-> <<CAP_EMBEDDING>>,
     is_multimodal |-> FALSE,
     is_experimental |-> FALSE,
     display_name |-> model_name]

build_standard_model_metadata(s, k, model_name, provider_hint) ==
    LET provider == determine_provider(s, model_name, provider_hint)
        series == determine_series(s, model_name, provider)
        model_type == determine_type(s, model_name, provider, series)
        variant == determine_variant(model_name, provider, series)
        context == get_context_size(s, model_name)
        caps == detect_capabilities(s, k, model_name, provider, series)
    IN  [provider |-> provider,
         series |-> series,
         model_type |-> model_type,
         variant |-> variant,
         context |-> context,
         capabilities |-> caps,
         is_multimodal |-> is_multimodal(model_name, caps, series),
         is_experimental |-> is_experimental(model_name),
         display_name |-> model_name]

\* Faulty variant: the embedding check comes before the image-generation check.
classify_model_embedding_first(s, k, model_id, provider_hint) ==
    LET model_lower == to_lowercase(model_id)
    IN  IF is_embedding_model(model_lower)
            THEN create_embedding_model_metadata(s, model_lower, provider_hint)
        ELSE IF is_image_generation_model(model_lower)
            THEN create_image_generation_metadata(s, model_lower, provider_hint)
        ELSE build_standard_model_metadata(s, k, model_lower, provider_hint)

\* s: hash state of the classifier's tables; k: hash state of the call's caps map
classify_model(s, k, model_id, provider_hint) ==
    LET model_lower == to_lowercase(model_id)
    IN  IF is_image_generation_model(model_lower)
            THEN create_image_generation_metadata(s, model_lower, provider_hint)
        ELSE IF is_embedding_model(model_lower)
            THEN create_embedding_model_metadata(s, model_lower, provider_hint)
        ELSE build_standard_model_metadata(s, k, model_lower, provider_hint)

\* str::eq_ignore_ascii_case
eq_ignore_ascii_case(a, b) == to_lowercase(a) = to_lowercase(b)

\* Faulty variant: the prefix is stripped whatever the provider is.
normalize_model_name_any_provider(model_id, provider) ==
    LET so == split_once(model_id)
        known == <<PROVIDER_ANTHROPIC, PROVIDER_OPENAI, <<"g","o","o","g","l","e">>, <<"m","e","t","a","-","l","l","a","m","a">>, <<"m","i","s","t","r","a","l","a","i">>>>
    IN  IF so # <<>> /\ \E i \in 1..Len(known) : eq_ignore_ascii_case(so[1], known[i])
        THEN so[2]
        ELSE model_id

normalize_model_name(model_id, provider) ==
    LET so == split_once(model_id)
        known == <<PROVIDER_ANTHROPIC, PROVIDER_OPENAI, <<"g","o","o","g","l","e">>, <<"m","e","t","a","-","l","l","a","m","a">>, <<"m","i","s","t","r","a","l","a","i">>>>
    IN  IF /\ eq_ignore_ascii_case(provider, PROVIDER_OPENROUTER)
           /\ so # <<>>
           /\ \E i \in 1..Len(known) : eq_ignore_ascii_case(so[1], known[i])
        THEN so[2]
        ELSE model_id

(***************************************************************************)
(* handlers/utils.rs: sort_models                                          *)
(*                                                                         *)
(* An Option<String> is <<>> (None) or <<s>> (Some(s)).                    *)
(***************************************************************************)
\* opt.clone().unwrap_or_else(|| default)
unwrap_or(opt, default) == IF opt = <<>> THEN default ELSE opt[1]

\* HashMap::get(key) on a priority map given as <<key, priority>> entries;
\* <<>> when the key is absent
map_get(entries, key) ==
    LET hits == {i \in 1..Len(entries) : entries[i][1] = key}
    IN  IF hits = {} THEN <<>> ELSE <<entries[MinOf(hits)][2]>>

\* Faulty variant: openai ranks before gemini.
provider_priority_openai_first ==
    << <<<<"o","p","e","n","a","i">>, 0>>, <<<<"g","e","m","i","n","i">>, 1>>, <<<<"o","p","e","n","r","o","u","t","e","r">>, 2>>,
       <<<<"a","n","t","h","r","o","p","i","c">>, 3>>, <<<<"c","l","a","u","d","e">>, 3>> >>

provider_priority ==
    << <<<<"g","e","m","i","n","i">>, 0>>, <<<<"o","p","e","n","a","i">>, 1>>, <<<<"o","p","e","n","r","o","u","t","e","r">>, 2>>,
       <<<<"a","n","t","h","r","o","p","i","c">>, 3>>, <<<<"c","l","a","u","d","e">>, 3>> >>

gemini_type_priority ==
    << <<TYPE_FLASH_LITE, 0>>, <<TYPE_FLASH, 1>>, <<TYPE_PRO, 2>>, <<TYPE_THINKING, 3>>,
       <<TYPE_GEMMA, 4>>, <<TYPE_STANDARD, 5>> >>

openai_type_priority ==
    << <<TYPE_MINI, 0>>, <<TYPE_O, 1>>, <<TYPE_45, 2>>, <<TYPE_4, 3>>, <<TYPE_35, 4>>,
       <<<<"o","t","h","e","r">>, 5>> >>

claude_type_priority ==
    << <<TYPE_SONNET, 0>>, <<TYPE_OPUS, 1>>, <<TYPE_HAIKU, 2>>, <<<<"o","t","h","e","r">>, 3>> >>

\* The rank of providers outside provider_priority: unwrap_or(&100)
UNRANKED_PROVIDER == 100

mini_prio(name) ==
    IF name = <<"4","o","-","m","i","n","i">> \/ name = <<"g","p","t","-","4","o","-","m","i","n","i">> THEN 0
    ELSE IF name = <<"o","1","-","m","i","n","i">> \/ name = <<"g","p","t","-","o","1","-","m","i","n","i">> THEN 1
    ELSE IF contains(name, <<"4","o","-","m","i","n","i">>) THEN 2
    ELSE IF contains(name, <<"o","1","-","m","i","n","i">>) THEN 3
    ELSE 4

\* An f64 version value v is held exactly as <<hi, lo>>, v = hi * 10^-8 + lo * 10^-16
\* with 0 <= lo < 10^8: exact for decimal strings of at most 16 fractional digits
\* and an integer part below 21, which is what the inputs of this model are.
RECURSIVE pad_digits(_, _)
pad_digits(d, n) == IF Len(d) >= n THEN SubSeq(d, 1, n) ELSE pad_digits(Append(d, "0"), n)

\* str::parse::<f64>() of a string of digits and dots: <<value>>, or <<>> (Err) when
\* the string is empty, is a lone ".", or holds more than one "."
parse_f64(s) ==
    LET dots == {i \in 1..Len(s) : s[i] = "."}
    IN  IF s = <<>> \/ Cardinality(dots) > 1 \/ s = <<".">> THEN <<>>
        ELSE LET dot == IF dots = {} THEN Len(s) + 1 ELSE MinOf(dots)
                 ip == SubSeq(s, 1, dot - 1)
                 fp == pad_digits(SubSeq(s, dot + 1, Len(s)), 16)
             IN  << <<digits_value(ip \o SubSeq(fp, 1, 8), 0),
                      digits_value(SubSeq(fp, 9, 16), 0)>> >>

\* version.clone().unwrap_or_default().chars().filter(|c| c.is_digit(10) || *c == '.')
\*     .collect::<String>().parse::<f64>().unwrap_or(0.0)
parsed_version(version) ==
    LET v == unwrap_or(version, <<>>)
        kept == SelectSeq(v, LAMBDA c : c \in Range(DigitChars) \/ c = ".")
    IN  unwrap_or(parse_f64(kept), <<0, 0>>)

\* (va - vb).abs() > f64::EPSILON.  f64::EPSILON = 2.220446049250313e-16 lies
\* between 2 and 3 units of 10^-16.
exceeds_epsilon(va, vb) ==
    LET dh == va[1] - vb[1]
    IN  IF dh >= 2 \/ dh <= -2 THEN TRUE
        ELSE LET d == dh * 100000000 + (va[2] - vb[2])
             IN  d >= 3 \/ d <= -3

\* x.partial_cmp(&y) on version values
f64_cmp(x, y) == IF x[1] # y[1] THEN int_cmp(x[1], y[1]) ELSE int_cmp(x[2], y[2])

\* a.name.clone().unwrap_or_else(|| a.id.clone())
name_or_id(m) == unwrap_or(m.name, m.id)

\* "Version descending", then "Final: name"
compare_version_then_name(a, b) ==
    LET va == parsed_version(a.version)
        vb == parsed_version(b.version)
    IN  IF exceeds_epsilon(va, vb) THEN f64_cmp(vb, va)
        ELSE str_cmp(to_lowercase(name_or_id(a)), to_lowercase(name_or_id(b)))

\* "Special: OpenAI mini series ordering"
compare_openai_mini(a, b) ==
    LET na == to_lowercase(name_or_id(a))
        nb == to_lowercase(name_or_id(b))
        va == parsed_version(a.version)
        vb == parsed_version(b.version)
    IN  IF mini_prio(na) # mini_prio(nb) THEN int_cmp(mini_prio(na), mini_prio(nb))
        ELSE IF exceeds_epsilon(va, vb) THEN f64_cmp(vb, va)
        ELSE str_cmp(na, nb)

\* The openai branch of "Provider-specific type priority"
compare_openai(a, b, ta, tb) ==
    LET other == map_get(openai_type_priority, <<"o","t","h","e","r">>)[1]
        ra == unwrap_or(map_get(openai_type_priority, ta), other)
        rb == unwrap_or(map_get(openai_type_priority, tb), other)
        na == to_lowercase(name_or_id(a))
        nb == to_lowercase(name_or_id(b))
        ba == (na = <<"g","p","t","-","4","o">> \/ na = <<"4","o">>)
        bb == (nb = <<"g","p","t","-","4","o">> \/ nb = <<"4","o">>)
        va == contains(na, <<"4","o">>) /\ ~contains(na, <<"4","o","-","m","i","n","i">>)
        vb == contains(nb, <<"4","o">>) /\ ~contains(nb, <<"4","o","-","m","i","n","i">>)
    IN  IF ra # rb THEN int_cmp(ra, rb)
        ELSE IF ta = TYPE_4 /\ tb = TYPE_4 /\ ba # bb THEN bool_cmp(bb, ba)
        ELSE IF ta = TYPE_4 /\ tb = TYPE_4 /\ va # vb THEN bool_cmp(vb, va)
        ELSE IF ra = other /\ rb = other
            THEN int_cmp(Len(name_or_id(a)), Len(name_or_id(b)))
        ELSE compare_version_then_name(a, b)

\* The comparator closure of sort_models: -1 Less, 0 Equal, 1 Greater
compare(a, b) ==
    LET pa == to_lowercase(a.provider)
        pb == to_lowercase(b.provider)
        pr_a == unwrap_or(map_get(provider_priority, pa), UNRANKED_PROVIDER)
        pr_b == unwrap_or(map_get(provider_priority, pb), UNRANKED_PROVIDER)
        ta == unwrap_or(a.model_type, TYPE_STANDARD)
        tb == unwrap_or(b.model_type, TYPE_STANDARD)
        gstd == map_get(gemini_type_priority, TYPE_STANDARD)[1]
        cother == map_get(claude_type_priority, <<"o","t","h","e","r">>)[1]
    IN  IF pr_a # pr_b THEN int_cmp(pr_a, pr_b)
        ELSE IF /\ pa = <<"o","p","e","n","a","i">>
                /\ to_lowercase(ta) = to_lowercase(TYPE_MINI)
                /\ to_lowercase(tb) = to_lowercase(TYPE_MINI)
            THEN compare_openai_mini(a, b)
        ELSE IF pa = <<"g","e","m","i","n","i">> THEN
            LET ra == unwrap_or(map_get(gemini_type_priority, ta), gstd)
                rb == unwrap_or(map_get(gemini_type_priority, tb), gstd)
            IN  IF ra # rb THEN int_cmp(ra, rb) ELSE compare_version_then_name(a, b)
        ELSE IF pa = <<"o","p","e","n","a","i">> THEN compare_openai(a, b, ta, tb)
        ELSE IF pa = <<"a","n","t","h","r","o","p","i","c">> \/ pa = <<"c","l","a","u","d","e">> THEN
            LET ra == unwrap_or(map_get(claude_type_priority, ta), cother)
                rb == unwrap_or(map_get(claude_type_priority, tb), cother)
            IN  IF ra # rb THEN int_cmp(ra, rb) ELSE compare_version_then_name(a, b)
        ELSE compare_version_then_name(a, b)

\* Faulty variant: an element also moves left past the elements it compares Equal to.
RECURSIVE insert_model_unstable(_, _)
insert_model_unstable(pre, x) ==
    IF pre # <<>> /\ compare(x, pre[Len(pre)]) <= 0
    THEN Append(insert_model_unstable(SubSeq(pre, 1, Len(pre) - 1), x), pre[Len(pre)])
    ELSE Append(pre, x)

\* slice::sort_by on a short slice: a stable insertion sort; x moves left past
\* every element it compares Less than.
RECURSIVE insert_model(_, _)
insert_model(pre, x) ==
    IF pre # <<>> /\ compare(x, pre[Len(pre)]) < 0
    THEN Append(insert_model(SubSeq(pre, 1, Len(pre) - 1), x), pre[Len(pre)])
    ELSE Append(pre, x)

RECURSIVE sort_from(_, _)
sort_from(done, rest) ==
    IF rest = <<>> THEN done
    ELSE sort_from(insert_model(done, Head(rest)), Tail(rest))

sort_models(models_list) == sort_from(<<>>, models_list)

(***************************************************************************)
(* handlers/utils.rs: convert_proto_models_to_internal                     *)
(* handlers/mod.rs: the enrichment loop of classify_models                 *)
(***************************************************************************)
\* if s.is_empty() { None } else { Some(s.clone()) }
some_unless_empty(s) == IF s = <<>> THEN <<>> ELSE <<s>>

\* A ProtoModel of a request, with the fields the caller commonly leaves empty.
proto(id, name, provider, version, context_size, display_name) ==
    [id |-> id, name |-> name, context_size |-> context_size, provider |-> provider,
     display_name |-> display_name, capabilities |-> <<>>, type |-> <<>>,
     family |-> <<>>, series |-> <<>>, variant |-> <<>>, is_multimodal |-> FALSE,
     is_experimental |-> FALSE, version |-> version]

convert_proto_model(pm) ==
    [id |-> pm.id,
     name |-> some_unless_empty(pm.name),
     context_size |-> pm.context_size,
     provider |-> pm.provider,
     original_provider |-> <<pm.provider>>,
     display_name |-> some_unless_empty(pm.display_name),
     capabilities |-> pm.capabilities,
     family |-> some_unless_empty(pm.family),
     model_type |-> some_unless_empty(pm.type),
     series |-> some_unless_empty(pm.series),
     variant |-> some_unless_empty(pm.variant),
     is_multimodal |-> pm.is_multimodal,
     is_experimental |-> pm.is_experimental,
     version |-> some_unless_empty(pm.version)]

convert_proto_models_to_internal(proto_models) ==
    [i \in 1..Len(proto_models) |-> convert_proto_model(proto_models[i])]

\* Faulty variant: the context size is taken from the classifier whatever the
\* request supplied.
enrich_overwriting_context(s, k, m) ==
    LET meta == classify_model(s, k, m.id, m.provider)
    IN  [m EXCEPT !.provider = meta.provider,
                  !.series = <<meta.series>>,
                  !.model_type = <<meta.model_type>>,
                  !.variant = <<meta.variant>>,
                  !.context_size = meta.context,
                  !.capabilities = meta.capabilities,
                  !.is_multimodal = meta.is_multimodal,
                  !.is_experimental = meta.is_experimental,
                  !.display_name = IF m.display_name = <<>> THEN <<meta.display_name>> ELSE @]

\* The body of "for m in &mut internal": the classifier's metadata applied onto m.
enrich(s, k, m) ==
    LET meta == classify_model(s, k, m.id, m.provider)
    IN  [m EXCEPT !.provider = meta.provider,
                  !.series = <<meta.series>>,
                  !.model_type = <<meta.model_type>>,
                  !.variant = <<meta.variant>>,
                  !.context_size = IF m.context_size = 0 THEN meta.context ELSE @,
                  !.capabilities = meta.capabilities,
                  !.is_multimodal = meta.is_multimodal,
                  !.is_experimental = meta.is_experimental,
                  !.display_name = IF m.display_name = <<>> THEN <<meta.display_name>> ELSE @]

\* convert_internal_models_to_proto: an absent optional field becomes the empty
\* string; original_provider has no counterpart in the message.
convert_internal_models_to_proto(internal_models) ==
    [i \in 1..Len(internal_models) |->
        LET im == internal_models[i]
        IN  [id |-> im.id,
             name |-> unwrap_or(im.name, <<>>),
             context_size |-> im.context_size,
             provider |-> im.provider,
             display_name |-> unwrap_or(im.display_name, <<>>),
             capabilities |-> im.capabilities,
             family |-> unwrap_or(im.family, <<>>),
             type |-> unwrap_or(im.model_type, <<>>),
             series |-> unwrap_or(im.series, <<>>),
             variant |-> unwrap_or(im.variant, <<>>),
             is_multimodal |-> im.is_multimodal,
             is_experimental |-> im.is_experimental,
             version |-> unwrap_or(im.version, <<>>)]]

(***************************************************************************)
(* classify_models_by_property: grouping by the values of one property.    *)
(***************************************************************************)
categorize_context_window(size) ==
    IF 0 <= size /\ size <= 10000 THEN <<"S","m","a","l","l"," ","(","<"," ","1","0","K",")">>
    ELSE IF 10001 <= size /\ size <= 100000 THEN <<"M","e","d","i","u","m"," ","(","1","0","K","-","1","0","0","K",")">>
    ELSE IF 100001 <= size /\ size <= 200000 THEN <<"L","a","r","g","e"," ","(","1","0","0","K","-","2","0","0","K",")">>
    ELSE <<"V","e","r","y"," ","L","a","r","g","e"," ","(",">"," ","2","0","0","K",")">>

bool_to_yes_no(value) == IF value THEN <<"Y","e","s">> ELSE <<"N","o">>

\* Faulty variant: a name the match does not know groups by provider.
property_values_provider_by_default(model, property) ==
    IF property = <<"f","a","m","i","l","y">> THEN model.family
    ELSE IF property = <<"t","y","p","e">> THEN model.model_type
    ELSE IF property = <<"s","e","r","i","e","s">> THEN model.series
    ELSE IF property = <<"v","a","r","i","a","n","t">> THEN model.variant
    ELSE IF property = <<"c","a","p","a","b","i","l","i","t","y">> THEN model.capabilities
    ELSE IF property = <<"c","o","n","t","e","x","t","_","w","i","n","d","o","w">>
         THEN <<categorize_context_window(model.context_size)>>
    ELSE IF property = <<"m","u","l","t","i","m","o","d","a","l">> THEN <<bool_to_yes_no(model.is_multimodal)>>
    ELSE <<model.provider>>

\* The values the match on the property name pushes for one model; an
\* unrecognised name pushes none (`_ => continue`).
property_values(model, property) ==
    IF property = <<"p","r","o","v","i","d","e","r">> THEN <<model.provider>>
    ELSE IF property = <<"f","a","m","i","l","y">> THEN model.family
    ELSE IF property = <<"t","y","p","e">> THEN model.model_type
    ELSE IF property = <<"s","e","r","i","e","s">> THEN model.series
    ELSE IF property = <<"v","a","r","i","a","n","t">> THEN model.variant
    ELSE IF property = <<"c","a","p","a","b","i","l","i","t","y">> THEN model.capabilities
    ELSE IF property = <<"c","o","n","t","e","x","t","_","w","i","n","d","o","w">>
         THEN <<categorize_context_window(model.context_size)>>
    ELSE IF property = <<"m","u","l","t","i","m","o","d","a","l">> THEN <<bool_to_yes_no(model.is_multimodal)>>
    ELSE <<>>

\* Faulty variant: the model joins the group opened last when its key is val,
\* and opens a new group otherwise.
group_entry_last_only(groups, val, model) ==
    IF groups # <<>> /\ groups[Len(groups)].key = val
    THEN [groups EXCEPT ![Len(groups)].members = Append(@, model)]
    ELSE Append(groups, [key |-> val, members |-> <<model>>])

\* groups.entry(val).or_default().push(model), the map kept as its entries in
\* the order their keys were inserted
group_entry(groups, val, model) ==
    IF \E i \in 1..Len(groups) : groups[i].key = val
    THEN [i \in 1..Len(groups) |->
            IF groups[i].key = val
            THEN [groups[i] EXCEPT !.members = Append(@, model)]
            ELSE groups[i]]
    ELSE Append(groups, [key |-> val, members |-> <<model>>])

\* for model in models_list { ... for val in values { ... } }, from the n-th value
\* of the i-th model on
RECURSIVE collect_groups(_, _, _, _, _)
collect_groups(groups, models_list, property, i, n) ==
    IF i > Len(models_list) THEN groups
    ELSE LET values == property_values(models_list[i], property)
         IN  IF n > Len(values)
             THEN collect_groups(groups, models_list, property, i + 1, 1)
             ELSE collect_groups(IF values[n] # <<>>
                                 THEN group_entry(groups, values[n], models_list[i])
                                 ELSE groups,
                                 models_list, property, i, n + 1)

\* Faulty variant: the capability result is returned as the map iterated.
classify_models_by_property_unsorted(h, models_list, property) ==
    LET groups == iter(collect_groups(<<>>, models_list, property, 1, 1), h)
    IN  [i \in 1..Len(groups) |->
            [property_name |-> property,
             property_value |-> groups[i].key,
             models |-> convert_internal_models_to_proto(groups[i].members)]]

\* The groups map iterates from its h-th entry; the capability result is then
\* sorted by lowercased value, groups of equal lowercased value keeping their
\* order (sort_by is stable).
classify_models_by_property(h, models_list, property) ==
    LET groups == iter(collect_groups(<<>>, models_list, property, 1, 1), h)
        result == [i \in 1..Len(groups) |->
                     [property_name |-> property,
                      property_value |-> groups[i].key,
                      models |-> convert_internal_models_to_proto(groups[i].members)]]
        before(j, i) ==
            LET c == cmp_lowercase(result[j].property_value, result[i].property_value)
            IN  c < 0 \/ (c = 0 /\ j < i)
        place(i) == 1 + Cardinality({j \in 1..Len(result) : before(j, i)})
    IN  IF property = <<"c","a","p","a","b","i","l","i","t","y">>
        THEN [r \in 1..Len(result) |->
                result[CHOOSE i \in 1..Len(result) : place(i) = r]]
        ELSE result

(***************************************************************************)
(* Sort specification: sort_models applied to a list of enriched models,   *)
(* and again to its own output.                                            *)
(***************************************************************************)
\* Requests' models whose enriched records are the inputs of the sort
\* specification, and two models as converted, with providers as a caller wrote them.
SortSamples ==
    {enrich(0, 1, convert_proto_model(pm)) : pm \in
        {proto(<<"g","p","t","-","4","o","-","m","i","n","i">>, <<>>, <<"o","p","e","n","a","i">>, <<>>, 0, <<>>),
         proto(<<"g","p","t","-","4","o">>, <<>>, <<"o","p","e","n","a","i">>, <<>>, 0, <<>>),
         proto(<<"g","p","t","-","4","-","t","u","r","b","o">>, <<"G","P","T","-","4"," ","T","u","r","b","o">>, <<>>, <<"v","4",".","5">>, 0, <<>>),
         proto(<<"d","a","v","i","n","c","i">>, <<>>, <<"o","p","e","n","a","i">>, <<>>, 0, <<>>),
         proto(<<"b","a","b","b","a","g","e">>, <<>>, <<"o","p","e","n","a","i">>, <<>>, 0, <<>>),
         proto(<<"g","e","m","i","n","i","-","2",".","0","-","f","l","a","s","h">>, <<>>, <<>>, <<"2",".","0">>, 0, <<>>),
         proto(<<"c","l","a","u","d","e","-","3","-","s","o","n","n","e","t">>, <<>>, <<>>, <<"3">>, 0, <<>>),
         proto(<<"l","l","a","m","a","-","a">>, <<>>, <<"m","e","t","a">>, <<>>, 0, <<>>),
         proto(<<"l","l","a","m","a","-","b">>, <<>>, <<"m","e","t","a">>, <<"0",".","0","0","0","0","0","0","0","0","0","0","0","0","0","0","0","2">>, 0, <<>>),
         proto(<<"l","l","a","m","a","-","c">>, <<>>, <<"m","e","t","a">>, <<"0",".","0","0","0","0","0","0","0","0","0","0","0","0","0","0","0","4">>, 0, <<>>)}}
    \cup {convert_proto_model(pm) : pm \in
        {proto(<<"m","i","x","t","r","a","l">>, <<>>, <<"O","p","e","n","R","o","u","t","e","r">>, <<>>, 0, <<>>),
         proto(<<"c","l","a","u","d","e","-","x">>, <<>>, <<"C","l","a","u","d","e">>, <<>>, 0, <<>>)}}

\* The lists over S of at most n elements.
ListsUpTo(S, n) == UNION {[1..k -> S] : k \in 0..n}

InitSort ==
    /\ seed = 0
    /\ arg = <<>>
    /\ last = <<>>
    /\ pc = "unsorted"
    /\ internal \in ListsUpTo(SortSamples, MaxSortLen)
    /\ enriched = Len(internal)
    /\ sorted = <<>>
    /\ resorted = <<>>
    /\ root_groups = <<>>
    /\ provider_idx = <<>>
    /\ type_idx = <<>>
    /\ version_idx = <<>>

\* sort_models(&mut list)
SortModels ==
    /\ pc = "unsorted"
    /\ sorted' = sort_models(internal)
    /\ pc' = "sorted"
    /\ UNCHANGED <<seed, arg, last, internal, enriched, resorted, root_groups,
                   provider_idx, type_idx, version_idx>>

\* sort_models(&mut list) on the list sort_models returned
SortAgain ==
    /\ pc = "sorted"
    /\ resorted' = sort_models(sorted)
    /\ pc' = "resorted"
    /\ UNCHANGED <<seed, arg, last, internal, enriched, sorted, root_groups,
                   provider_idx, type_idx, version_idx>>

NextSort == SortModels \/ SortAgain

SpecSort == InitSort /\ [][NextSort]_vars

(***************************************************************************)
(* handlers/mod.rs: build_model_hierarchy                                  *)
(***************************************************************************)
new_group(name, value) ==
    [group_name |-> name, group_value |-> value, models |-> <<>>, children |-> <<>>]

\* m.original_provider.clone().unwrap_or_else(|| m.provider.clone()), "Other" if empty
provider_key(m) ==
    LET provider == unwrap_or(m.original_provider, m.provider)
    IN  IF provider = <<>> THEN <<"O","t","h","e","r">> ELSE provider

type_key(m) ==
    LET model_type == unwrap_or(m.model_type, TYPE_STANDARD)
    IN  IF model_type = <<>> THEN TYPE_STANDARD ELSE model_type

version_key(m) ==
    LET version == unwrap_or(m.variant, <<"D","e","f","a","u","l","t">>)
    IN  IF version = <<>> THEN <<"D","e","f","a","u","l","t">> ELSE version

\* Faulty variant: a group is opened only when no sibling has the value yet.
opens_group_unless_seen(groups, idx, value) ==
    idx = <<>> \/ \A i \in 1..Len(groups) : groups[i].group_value # value

\* idx.is_none() || groups[idx.unwrap()].group_value != value
\* (an index Some(i) of the source is <<i + 1>> here: sequences start at 1)
opens_group(groups, idx, value) ==
    idx = <<>> \/ groups[idx[1]].group_value # value

\* Faulty variant: the model is pushed twice.
add_model_twice(tg, vi, m) == [tg EXCEPT !.children[vi].models = Append(Append(@, m), m)]

\* Faulty variant: the model is pushed onto the type group, not its version group.
add_model_to_type_group(tg, vi, m) == [tg EXCEPT !.models = Append(@, m)]

\* vg = &mut tg.children[version_idx.unwrap()]; vg.models.push(m)
add_model(tg, vi, m) == [tg EXCEPT !.children[vi].models = Append(@, m)]

\* One iteration of "for m in sorted.into_iter()" on the locals st.
build_step(st, m) ==
    LET provider == provider_key(m)
        model_type == type_key(m)
        version == version_key(m)
        np == opens_group(st.root_groups, st.provider_idx, provider)
        rg == IF np THEN Append(st.root_groups, new_group(<<"p","r","o","v","i","d","e","r">>, provider))
              ELSE st.root_groups
        pi == IF np THEN <<Len(rg)>> ELSE st.provider_idx
        ti0 == IF np THEN <<>> ELSE st.type_idx
        vi0 == IF np THEN <<>> ELSE st.version_idx
        pg == rg[pi[1]]
        nt == opens_group(pg.children, ti0, model_type)
        pgc == IF nt THEN Append(pg.children, new_group(<<"t","y","p","e">>, model_type))
               ELSE pg.children
        ti == IF nt THEN <<Len(pgc)>> ELSE ti0
        vi1 == IF nt THEN <<>> ELSE vi0
        tg == pgc[ti[1]]
        nv == opens_group(tg.children, vi1, version)
        tgc == IF nv THEN Append(tg.children, new_group(<<"v","e","r","s","i","o","n">>, version))
               ELSE tg.children
        vi == IF nv THEN <<Len(tgc)>> ELSE vi1
        tg2 == add_model([tg EXCEPT !.children = tgc], vi[1], m)
    IN  [root_groups |-> [rg EXCEPT ![pi[1]].children = [pgc EXCEPT ![ti[1]] = tg2]],
         provider_idx |-> pi, type_idx |-> ti, version_idx |-> vi]

(***************************************************************************)
(* Handler specification: one request to the hierarchical endpoint         *)
(* classify_models, from the request's models to the tree of the response. *)
(***************************************************************************)
RequestProtos ==
    {proto(<<"g","p","t","-","4","o","-","m","i","n","i">>, <<>>, <<"o","p","e","n","a","i">>, <<>>, 0, <<>>),
     proto(<<"g","p","t","-","4","o">>, <<>>, <<>>, <<>>, 0, <<>>),
     proto(<<"g","p","t","-","3",".","5","-","t","u","r","b","o">>, <<>>, <<"o","p","e","n","a","i">>, <<>>, 0, <<>>),
     proto(<<"c","l","a","u","d","e","-","3","-","s","o","n","n","e","t">>, <<>>, <<"a","n","t","h","r","o","p","i","c">>, <<>>, 0, <<>>),
     proto(<<"c","l","a","u","d","e","-","3",".","5","-","s","o","n","n","e","t">>, <<>>, <<"a","n","t","h","r","o","p","i","c">>, <<>>, 4096, <<"M","y"," ","C","l","a","u","d","e">>),
     proto(<<"u","s",".","a","n","t","h","r","o","p","i","c",".","c","l","a","u","d","e","-","3","-","s","o","n","n","e","t">>, <<>>, <<"a","n","t","h","r","o","p","i","c">>, <<>>, 0, <<>>)}

\* ModelClassificationHandler::default(), and a request in flight
Init ==
    /\ seed \in 0..MaxHandlerSeed
    /\ arg \in ListsUpTo(RequestProtos, MaxModels)
    /\ last = <<>>
    /\ pc = "request"
    /\ internal = <<>>
    /\ enriched = 0
    /\ sorted = <<>>
    /\ resorted = <<>>
    /\ root_groups = <<>>
    /\ provider_idx = <<>>
    /\ type_idx = <<>>
    /\ version_idx = <<>>

\* let mut internal = convert_proto_models_to_internal(&req.models)
ConvertRequest ==
    /\ pc = "request"
    /\ internal' = convert_proto_models_to_internal(arg)
    /\ enriched' = 0
    /\ pc' = "enrich"
    /\ UNCHANGED <<seed, arg, last, sorted, resorted, root_groups,
                   provider_idx, type_idx, version_idx>>

\* one iteration of "for m in &mut internal"
EnrichModel ==
    /\ pc = "enrich"
    /\ enriched < Len(internal)
    /\ \E k \in 1..Len(CapOrders) :
           internal' = [internal EXCEPT ![enriched + 1] = enrich(seed, k, @)]
    /\ enriched' = enriched + 1
    /\ UNCHANGED <<seed, arg, last, pc, sorted, resorted, root_groups,
                   provider_idx, type_idx, version_idx>>

\* build_model_hierarchy up to its loop: the clone is sorted, the locals are set
SortClone ==
    /\ pc = "enrich"
    /\ enriched = Len(internal)
    /\ sorted' = sort_models(internal)
    /\ root_groups' = <<>>
    /\ provider_idx' = <<>>
    /\ type_idx' = <<>>
    /\ version_idx' = <<>>
    /\ pc' = "build"
    /\ UNCHANGED <<seed, arg, last, internal, enriched, resorted>>

\* one iteration of "for m in sorted.into_iter()"
GroupModel ==
    /\ pc = "build"
    /\ sorted # <<>>
    /\ LET st == build_step([root_groups |-> root_groups, provider_idx |-> provider_idx,
                             type_idx |-> type_idx, version_idx |-> version_idx],
                            Head(sorted))
       IN  /\ root_groups' = st.root_groups
           /\ provider_idx' = st.provider_idx
           /\ type_idx' = st.type_idx
           /\ version_idx' = st.version_idx
    /\ sorted' = Tail(sorted)
    /\ UNCHANGED <<seed, arg, last, pc, internal, enriched, resorted>>

\* the loop is over: root_groups is returned and sent as hierarchical_groups
Respond ==
    /\ pc = "build"
    /\ sorted = <<>>
    /\ pc' = "done"
    /\ UNCHANGED <<seed, arg, last, internal, enriched, sorted, resorted, root_groups,
                   provider_idx, type_idx, version_idx>>

\* Faulty variant: the criteria are ignored and the call answers Ok with an
\* empty classification.
ClassifyModelsWithCriteriaAnswering ==
    /\ pc = "request"
    /\ last' = <<[code |-> "Ok", message |-> <<>>]>>
    /\ pc' = "rejected"
    /\ UNCHANGED <<seed, arg, internal, enriched, sorted, resorted, root_groups,
                   provider_idx, type_idx, version_idx>>

\* classify_models_with_criteria: the request is taken and dropped, and the call
\* answers Err(Status::unimplemented(..)); `last` is the status of the answer.
ClassifyModelsWithCriteria ==
    /\ pc = "request"
    /\ last' = <<[code |-> "Unimplemented",
                  message |-> <<"C","l","a","s","s","i","f","y","M","o","d","e","l","s","W","i","t","h","C","r","i","t","e","r","i","a"," ","i","s"," ","n","o","t"," ","y","e","t"," ","i","m","p","l","e","m","e","n","t","e","d">>]>>
    /\ pc' = "rejected"
    /\ UNCHANGED <<seed, arg, internal, enriched, sorted, resorted, root_groups,
                   provider_idx, type_idx, version_idx>>

Next ==
    \/ ConvertRequest \/ EnrichModel \/ SortClone \/ GroupModel \/ Respond
    \/ ClassifyModelsWithCriteria

Spec == Init /\ [][Next]_vars

(***************************************************************************)
(* Inputs of the classifier specification                                  *)
(***************************************************************************)
IdStems ==
    {<<>>, <<"g","p","t","-","4">>, <<"g","p","t","-","4","o">>, <<"G","P","T","-","4","o">>, <<"g","p","t","-","3",".","5","-","t","u","r","b","o">>, <<"o","1">>, <<"c","l","a","u","d","e","-","3">>, <<"c","l","a","u","d","e","-","3",".","7">>,
     <<"g","e","m","i","n","i","-","2",".","0">>, <<"l","l","a","m","a","-","3">>, <<"o","p","e","n","a","i","/","g","p","t","-","4">>, <<"A","n","t","h","r","o","p","i","c","/","g","p","t","-","4">>, <<"t","e","x","t">>, <<"e","m","b","e","d">>,
     <<"d","a","l","l","-","e">>, <<"s","t","a","b","l","e","-","d","i","f","f","u","s","i","o","n">>}

IdSuffixes ==
    {<<>>, <<"-","m","i","n","i">>, <<"-","3","2","k">>, <<"-","s","o","n","n","e","t">>, <<"-","p","r","o">>, <<"-","v","i","s","i","o","n","-","b","e","t","a">>, <<"-","i","m","a","g","e">>,
     <<"-","e","m","b","e","d","d","i","n","g","-","a","d","a","-","0","0","2">>, <<"-","a","l","p","h","a">>, <<"-","e","x","p","e","r","i","m","e","n","t","a","l">>}

ModelIds == {a \o b : a \in IdStems, b \in IdSuffixes}

ProviderHints == {<<>>, <<"O","p","e","n","A","I">>, <<"a","z","u","r","e">>}

request_vars == <<pc, internal, enriched, sorted, resorted, root_groups,
                  provider_idx, type_idx, version_idx>>

(***************************************************************************)
(* Classifier specification: classify_model calls for one (id, hint) on a  *)
(* classifier, which may be constructed anew between calls.                *)
(***************************************************************************)
InitClassify ==
    /\ seed \in HashSeeds
    /\ arg \in [id : ModelIds, hint : ProviderHints]
    /\ last = <<>>
    /\ pc = "idle"
    /\ internal = <<>>
    /\ enriched = 0
    /\ sorted = <<>>
    /\ resorted = <<>>
    /\ root_groups = <<>>
    /\ provider_idx = <<>>
    /\ type_idx = <<>>
    /\ version_idx = <<>>

\* ModelClassifier::new(): the tables are built again, with fresh hash states.
NewClassifier ==
    /\ seed' \in HashSeeds
    /\ UNCHANGED <<arg, last, request_vars>>

\* classify_model(model_id, provider_hint) on the classifier
ClassifyModel ==
    \E k \in 1..Len(CapOrders) :
        /\ last' = <<classify_model(seed, k, arg.id, arg.hint)>>
        /\ UNCHANGED <<seed, arg, request_vars>>

NextClassify == NewClassifier \/ ClassifyModel

SpecClassify == InitClassify /\ [][NextClassify]_vars

(***************************************************************************)
(* Normalisation specification: ModelClassifier::normalize_model_name      *)
(* called for one (model_id, provider).                                    *)
(***************************************************************************)
NormalizeIds ==
    {<<>>, <<"c","l","a","u","d","e","-","3","-","o","p","u","s">>, <<"a","n","t","h","r","o","p","i","c","/","c","l","a","u","d","e","-","3","-","o","p","u","s">>, <<"O","p","e","n","A","I","/","g","p","t","-","4">>,
     <<"g","o","o","g","l","e","/","g","e","m","i","n","i","-","p","r","o">>, <<"m","e","t","a","-","l","l","a","m","a","/","l","l","a","m","a","-","3">>, <<"m","i","s","t","r","a","l","a","i","/","m","i","x","t","r","a","l">>, <<"m","e","t","a","/","l","l","a","m","a","-","3">>,
     <<"u","n","k","n","o","w","n","/","m","o","d","e","l">>, <<"a","n","t","h","r","o","p","i","c","/","a","/","b">>, <<"/","g","p","t","-","4">>, <<"a","n","t","h","r","o","p","i","c","/">>}

NormalizeProviders == {<<>>, <<"o","p","e","n","r","o","u","t","e","r">>, <<"O","p","e","n","R","o","u","t","e","r">>, <<"a","n","t","h","r","o","p","i","c">>, <<"o","p","e","n","a","i">>}

InitNormalize ==
    /\ seed = 0
    /\ arg \in [id : NormalizeIds, hint : NormalizeProviders]
    /\ last = <<>>
    /\ pc = "idle"
    /\ internal = <<>>
    /\ enriched = 0
    /\ sorted = <<>>
    /\ resorted = <<>>
    /\ root_groups = <<>>
    /\ provider_idx = <<>>
    /\ type_idx = <<>>
    /\ version_idx = <<>>

\* ModelClassifier::normalize_model_name(model_id, provider)
NormalizeModelName ==
    /\ last' = <<normalize_model_name(arg.id, arg.hint)>>
    /\ UNCHANGED <<seed, arg, request_vars>>

SpecNormalize == InitNormalize /\ [][NormalizeModelName]_vars

(***************************************************************************)
(* Grouping specification: classify_models_by_property called for one list *)
(* of models and one property name.                                        *)
(***************************************************************************)
MaxGroupLen == 3

\* Three requests' models as enrichment leaves them, and one model as a caller
\* may have built it: no provider, a family, an empty series, an empty
\* capability and a capability listed twice.
GroupBySamples ==
    {enrich(0, 1, convert_proto_model(pm)) : pm \in
        {[proto(<<"g","p","t","-","4","o">>, <<>>, <<"o","p","e","n","a","i">>, <<>>, 0, <<>>) EXCEPT !.family = <<"G","P","T","-","4">>],
         proto(<<"c","l","a","u","d","e","-","3","-","s","o","n","n","e","t">>, <<>>, <<"a","n","t","h","r","o","p","i","c">>, <<>>, 0, <<>>),
         proto(<<"g","p","t","-","3",".","5","-","t","u","r","b","o">>, <<>>, <<"o","p","e","n","a","i">>, <<>>, 0, <<>>)}}
    \cup {[convert_proto_model(proto(<<"c","u","s","t","o","m">>, <<>>, <<>>, <<>>, -1, <<>>))
              EXCEPT !.family = <<<<"G","P","T","-","4">>>>, !.series = <<<<>>>>,
                     !.capabilities = <<<<"C","h","a","t">>, <<"v","i","s","i","o","n">>, <<>>, <<"v","i","s","i","o","n">>>>]}

GroupByProperties ==
    {<<"p","r","o","v","i","d","e","r">>, <<"f","a","m","i","l","y">>, <<"t","y","p","e">>, <<"s","e","r","i","e","s">>, <<"v","a","r","i","a","n","t">>, <<"c","a","p","a","b","i","l","i","t","y">>,
     <<"c","o","n","t","e","x","t","_","w","i","n","d","o","w">>, <<"m","u","l","t","i","m","o","d","a","l">>, <<"u","n","k","n","o","w","n">>, <<"P","r","o","v","i","d","e","r">>, <<>>}

InitGroupBy ==
    /\ seed = 0
    /\ arg \in GroupByProperties
    /\ last = <<>>
    /\ pc = "idle"
    /\ internal \in ListsUpTo(GroupBySamples, MaxGroupLen)
    /\ enriched = 0
    /\ sorted = <<>>
    /\ resorted = <<>>
    /\ root_groups = <<>>
    /\ provider_idx = <<>>
    /\ type_idx = <<>>
    /\ version_idx = <<>>

\* classify_models_by_property(models_list, property), the call's own groups
\* map iterating from any of its entries
ClassifyModelsByProperty ==
    /\ \E h \in HashSeeds :
           last' = <<classify_models_by_property(h, internal, arg)>>
    /\ UNCHANGED <<seed, arg, request_vars>>

SpecGroupBy == InitGroupBy /\ [][ClassifyModelsByProperty]_vars

(***************************************************************************)
(* Bucketing specification: categorize_context_window called for one size. *)
(***************************************************************************)
MaxOffset == 6

\* The i32 sizes within MaxOffset of a bound of a match arm, and the two
\* extreme sizes.
ContextSizes ==
    UNION {(t - MaxOffset)..(t + MaxOffset) : t \in {0, 10000, 100000, 200000}}
        \cup {-2147483647 - 1, 2147483647}

InitBucket ==
    /\ seed = 0
    /\ arg \in ContextSizes
    /\ last = <<>>
    /\ pc = "idle"
    /\ internal = <<>>
    /\ enriched = 0
    /\ sorted = <<>>
    /\ resorted = <<>>
    /\ root_groups = <<>>
    /\ provider_idx = <<>>
    /\ type_idx = <<>>
    /\ version_idx = <<>>

\* categorize_context_window(size)
CategorizeContextWindow ==
    /\ last' = <<categorize_context_window(arg)>>
    /\ UNCHANGED <<seed, arg, request_vars>>

SpecBucket == InitBucket /\ [][CategorizeContextWindow]_vars

(***************************************************************************)
(* Shared-classifier specification: concurrent classify_model calls, one   *)
(* per task, on one ModelClassifier. Here arg, pc, internal and last hold  *)
(* one entry per task: the call's arguments, its position, its local       *)
(* model_lower and its answer.                                             *)
(***************************************************************************)
MaxTasks == 2

ConcurrentRequests ==
    {[id |-> <<"g","p","t","-","4","o">>, hint |-> <<>>], [id |-> <<"G","P","T","-","4","-","3","2","k">>, hint |-> <<>>],
     [id |-> <<"c","l","a","u","d","e","-","3","-","s","o","n","n","e","t">>, hint |-> <<"a","z","u","r","e">>], [id |-> <<"e","m","b","e","d">>, hint |-> <<"O","p","e","n","A","I">>]}

\* ModelClassifier::new(), and one call per task about to start
InitShared ==
    /\ seed \in HashSeeds
    /\ arg \in [1..MaxTasks -> ConcurrentRequests]
    /\ last = [t \in 1..MaxTasks |-> <<>>]
    /\ pc = [t \in 1..MaxTasks |-> "idle"]
    /\ internal = [t \in 1..MaxTasks |-> <<>>]
    /\ enriched = 0
    /\ sorted = <<>>
    /\ resorted = <<>>
    /\ root_groups = <<>>
    /\ provider_idx = <<>>
    /\ type_idx = <<>>
    /\ version_idx = <<>>

\* Faulty variant: the call leaves the classifier's tables rebuilt.
FinishClassifyRehashing(t) ==
    /\ pc[t] = "running"
    /\ \E k \in 1..Len(CapOrders) :
           last' = [last EXCEPT ![t] = <<classify_model(seed, k, arg[t].id, arg[t].hint)>>]
    /\ seed' = (seed + 1) % (MaxSeed + 1)
    /\ pc' = [pc EXCEPT ![t] = "done"]
    /\ UNCHANGED <<arg, internal, enriched, sorted, resorted, root_groups,
                   provider_idx, type_idx, version_idx>>

\* classify_model(&self, ..) entered by task t: let model_lower = model_id.to_lowercase()
BeginClassify(t) ==
    /\ pc[t] = "idle"
    /\ internal' = [internal EXCEPT ![t] = to_lowercase(arg[t].id)]
    /\ pc' = [pc EXCEPT ![t] = "running"]
    /\ UNCHANGED <<seed, arg, last, enriched, sorted, resorted, root_groups,
                   provider_idx, type_idx, version_idx>>

\* the rest of the call of task t: the tables are read through &self and the
\* metadata is returned
FinishClassify(t) ==
    /\ pc[t] = "running"
    /\ \E k \in 1..Len(CapOrders) :
           last' = [last EXCEPT ![t] = <<classify_model(seed, k, arg[t].id, arg[t].hint)>>]
    /\ pc' = [pc EXCEPT ![t] = "done"]
    /\ UNCHANGED <<seed, arg, internal, enriched, sorted, resorted, root_groups,
                   provider_idx, type_idx, version_idx>>

SpecShared ==
    InitShared /\ [][\E t \in 1..MaxTasks : BeginClassify(t) \/ FinishClassify(t)]_vars

(***************************************************************************)
(* Properties of the classifier                                            *)
(***************************************************************************)
Called == last # <<>>

ShortCircuits(id) ==
    is_image_generation_model(to_lowercase(id)) \/ is_embedding_model(to_lowercase(id))

\* C1: classify_model(id, hint) is determined by (id, hint): a call returns the
\* same metadata as the call before it for the same (id, hint), whether made on
\* the same classifier or on one constructed in between.
C1_ClassifyDeterministic ==
    [][(last # <<>> /\ last' # <<>>) => last' = last]_vars

\* C2 as stated: every classification, the image-generation and embedding
\* short-circuits included, lists the "chat" capability.
C2_ChatInEveryClassification ==
    Called => CAP_CHAT \in Range(last[1].capabilities)

\* C2 as amended: every classification that takes neither the image-generation
\* nor the embedding short-circuit lists the "chat" capability.
C2_ChatOnStandardPath ==
    (Called /\ ~ShortCircuits(arg.id)) => CAP_CHAT \in Range(last[1].capabilities)

C2_Witness ==
    /\ Called
    /\ ~ShortCircuits(arg.id)
    /\ Len(last[1].capabilities) = 1
    /\ last[1].provider = PROVIDER_OTHER

\* C3: the capability list of every classification is sorted ascending by
\* case-insensitive comparison and holds no entry twice.
C3_CapabilitiesSortedNoDuplicates ==
    Called =>
        LET c == last[1].capabilities
        IN  /\ \A i \in 1..(Len(c) - 1) : cmp_lowercase(c[i], c[i + 1]) <= 0
            /\ \A i, j \in 1..Len(c) : i # j => c[i] # c[j]

C3_Witness == Called /\ Len(last[1].capabilities) = 3

KnownContextKey(lower) ==
    \E i \in 1..Len(context_sizes) : contains(lower, context_sizes[i][1])

FamilyHeuristicMatches(lower) ==
    \E f \in {<<"g","p","t","-","4",".","5">>, <<"g","p","t","-","4">>, <<"g","p","t","-","3",".","5">>, <<"c","l","a","u","d","e","-","3">>, <<"c","l","a","u","d","e","-","2">>, <<"c","l","a","u","d","e","-","i","n","s","t","a","n","t">>,
              <<"g","e","m","i","n","i","-","1",".","0">>, <<"g","e","m","i","n","i","-","1",".","5">>, <<"g","e","m","i","n","i","-","2",".","0">>} : contains(lower, f)

UnknownContext(id) ==
    ~KnownContextKey(to_lowercase(id)) /\ ~FamilyHeuristicMatches(to_lowercase(id))

\* C4: the context size of get_context_size and of classify_model is never
\* negative, and is 0 when the lowercased id contains no key of context_sizes and
\* matches no family heuristic.
C4_ContextNeverNegativeZeroWhenUnknown ==
    /\ get_context_size(seed, arg.id) >= 0
    /\ UnknownContext(arg.id) => get_context_size(seed, arg.id) = 0
    /\ Called => last[1].context >= 0
    /\ (Called /\ UnknownContext(arg.id)) => last[1].context = 0

C4_Witness ==
    /\ Called
    /\ UnknownContext(arg.id)
    /\ ~ShortCircuits(arg.id)
    /\ arg.id # <<>>
    /\ last[1].context = 0

(***************************************************************************)
(* Properties of sort_models                                               *)
(***************************************************************************)
\* C5: the comparator is a consistent order: compare(a, b) is the reverse of
\* compare(b, a), and it is transitive, both for Less and for Equal.
C5_ComparatorConsistent ==
    \A a, b, c \in Range(internal) :
        /\ compare(a, b) = -compare(b, a)
        /\ (compare(a, b) < 0 /\ compare(b, c) < 0) => compare(a, c) < 0
        /\ (compare(a, b) = 0 /\ compare(b, c) = 0) => compare(a, c) = 0

\* C6: sorting the output of sort_models returns the same sequence.
C6_SortIdempotent == (pc = "resorted") => (resorted = sorted)

C6_Witness ==
    /\ pc = "resorted"
    /\ Len(sorted) = 3
    /\ sorted # internal
    /\ \E i \in 1..2 : sorted[i] # sorted[i + 1] /\ compare(sorted[i], sorted[i + 1]) = 0

NamesPairwiseDifferent(list) ==
    \A i, j \in 1..Len(list) :
        i # j => to_lowercase(name_or_id(list[i])) # to_lowercase(name_or_id(list[j]))

PermutationsOf(list) ==
    {[i \in 1..Len(list) |-> list[f[i]]] : f \in Permutations(1..Len(list))}

\* C7: for models with pairwise different names, sort_models returns the same
\* sequence for every permutation of the input.
C7_SortedOrderCanonical ==
    (pc = "sorted" /\ NamesPairwiseDifferent(internal)) =>
        \A p \in PermutationsOf(internal) : sort_models(p) = sorted

(***************************************************************************)
(* Properties of the hierarchical endpoint                                 *)
(***************************************************************************)
\* C8: the tree is well-formed: provider groups hold type groups and no models,
\* type groups hold version groups and no models, version groups hold models
\* and no groups, none of them empty; an empty request yields an empty tree.
C8_TreeWellFormed ==
    /\ \A pg \in Range(root_groups) :
           /\ pg.group_name = <<"p","r","o","v","i","d","e","r">> /\ pg.models = <<>> /\ pg.children # <<>>
           /\ \A tg \in Range(pg.children) :
                  /\ tg.group_name = <<"t","y","p","e">> /\ tg.models = <<>> /\ tg.children # <<>>
                  /\ \A vg \in Range(tg.children) :
                         vg.group_name = <<"v","e","r","s","i","o","n">> /\ vg.children = <<>> /\ vg.models # <<>>
    /\ (pc = "done" /\ arg = <<>>) => root_groups = <<>>

C8_Witness ==
    /\ pc = "done"
    /\ Len(arg) = 3
    /\ Len(root_groups) = 2
    /\ \E pg \in Range(root_groups) : \E tg \in Range(pg.children) :
           \E vg \in Range(tg.children) : Len(vg.models) = 2

\* C9: the provider groups of a response have pairwise different group values.
C9_OneGroupPerProvider ==
    (pc = "done") =>
        \A i, j \in 1..Len(root_groups) :
            i # j => root_groups[i].group_value # root_groups[j].group_value

grouping_key(m) == <<provider_key(m), type_key(m), version_key(m)>>

\* C10: in the sorted list the models of one (provider, type, version) key are
\* contiguous, and in the response no two type groups of a provider group and
\* no two version groups of a type group have the same group value.
C10_GroupingKeysContiguous ==
    /\ (pc = "build" /\ Len(sorted) = Len(internal)) =>
           \A i, j, l \in 1..Len(sorted) :
               (i < j /\ j < l /\ grouping_key(sorted[i]) = grouping_key(sorted[l]))
                   => grouping_key(sorted[j]) = grouping_key(sorted[i])
    /\ (pc = "done") =>
           \A pg \in Range(root_groups) :
               /\ \A i, j \in 1..Len(pg.children) :
                      i # j => pg.children[i].group_value # pg.children[j].group_value
               /\ \A tg \in Range(pg.children) :
                      \A i, j \in 1..Len(tg.children) :
                          i # j => tg.children[i].group_value # tg.children[j].group_value

(***************************************************************************)
(* Scenarios and rules of the classifier                                   *)
(***************************************************************************)
\* C11: classify_model("gpt-4o", "") returns provider openai, type GPT 4, variant
\* GPT-4o, context 128000, capabilities [chat, function-calling, vision],
\* multimodal and not experimental, on every classifier.
C11_Gpt4oScenario ==
    (Called /\ arg.id = <<"g","p","t","-","4","o">> /\ arg.hint = <<>>) =>
        /\ last[1].provider = PROVIDER_OPENAI
        /\ last[1].model_type = TYPE_4
        /\ last[1].variant = <<"G","P","T","-","4","o">>
        /\ last[1].context = 128000
        /\ last[1].capabilities = <<CAP_CHAT, CAP_FUNCTION_CALLING, CAP_VISION>>
        /\ last[1].is_multimodal
        /\ ~last[1].is_experimental

\* C12: classify_model("claude-3-sonnet", "") returns provider anthropic, series
\* Claude 3, type Sonnet, variant Claude 3.0, context 200000, capabilities
\* [chat, function-calling, vision] and multimodal.
C12_Claude3SonnetScenario ==
    (Called /\ arg.id = <<"c","l","a","u","d","e","-","3","-","s","o","n","n","e","t">> /\ arg.hint = <<>>) =>
        /\ last[1].provider = PROVIDER_ANTHROPIC
        /\ last[1].series = SERIES_CLAUDE3
        /\ last[1].model_type = TYPE_SONNET
        /\ last[1].variant = <<"C","l","a","u","d","e"," ","3",".","0">>
        /\ last[1].context = 200000
        /\ last[1].capabilities = <<CAP_CHAT, CAP_FUNCTION_CALLING, CAP_VISION>>
        /\ last[1].is_multimodal

C12_Witness == Called /\ arg.id = <<"c","l","a","u","d","e","-","3","-","s","o","n","n","e","t">> /\ arg.hint = <<>> /\ seed = MaxSeed

HasImageKeyword(id) ==
    \E w \in {<<"i","m","a","g","e">>, <<"d","a","l","l","-","e">>, <<"s","t","a","b","l","e","-","d","i","f","f","u","s","i","o","n">>} : contains(to_lowercase(id), w)

\* C13: an id whose lowercased form contains "embed" and no image-generation
\* keyword classifies to the fixed shape series = type = variant = "Embedding",
\* context 0, capabilities ["embedding"], not multimodal, not experimental.
C13_EmbeddingShape ==
    (Called /\ contains(to_lowercase(arg.id), <<"e","m","b","e","d">>) /\ ~HasImageKeyword(arg.id)) =>
        /\ last[1].series = <<"E","m","b","e","d","d","i","n","g">>
        /\ last[1].model_type = <<"E","m","b","e","d","d","i","n","g">>
        /\ last[1].variant = <<"E","m","b","e","d","d","i","n","g">>
        /\ last[1].context = 0
        /\ last[1].capabilities = <<<<"e","m","b","e","d","d","i","n","g">>>>
        /\ ~last[1].is_multimodal
        /\ ~last[1].is_experimental

C13_Witness == Called /\ arg.id = <<"t","e","x","t","-","e","m","b","e","d","d","i","n","g","-","a","d","a","-","0","0","2">> /\ arg.hint = <<>>

\* C14: an id whose lowercased form contains "image", "dall-e" or
\* "stable-diffusion" classifies to the fixed shape series = type = variant =
\* "Image Generation", context 0, capabilities ["Image Generation"], not
\* multimodal, not experimental, also when it matches the embedding keywords or
\* rules of the standard path.
C14_ImageGenerationShape ==
    (Called /\ HasImageKeyword(arg.id)) =>
        /\ last[1].series = <<"I","m","a","g","e"," ","G","e","n","e","r","a","t","i","o","n">>
        /\ last[1].model_type = <<"I","m","a","g","e"," ","G","e","n","e","r","a","t","i","o","n">>
        /\ last[1].variant = <<"I","m","a","g","e"," ","G","e","n","e","r","a","t","i","o","n">>
        /\ last[1].context = 0
        /\ last[1].capabilities = <<<<"I","m","a","g","e"," ","G","e","n","e","r","a","t","i","o","n">>>>
        /\ ~last[1].is_multimodal
        /\ ~last[1].is_experimental

C14_Witness == Called /\ arg.id = <<"d","a","l","l","-","e","-","e","m","b","e","d","d","i","n","g","-","a","d","a","-","0","0","2">>

(***************************************************************************)
(* Properties of normalize_model_name                                      *)
(***************************************************************************)
KnownVendors == {<<"a","n","t","h","r","o","p","i","c">>, <<"o","p","e","n","a","i">>, <<"g","o","o","g","l","e">>, <<"m","e","t","a","-","l","l","a","m","a">>, <<"m","i","s","t","r","a","l","a","i">>}

\* The prefix of id before its first "/" is a known vendor, and rest follows that "/".
VendorPrefixed(id, rest) ==
    \E i \in 1..Len(id) :
        /\ id[i] = "/"
        /\ \A j \in 1..(i - 1) : id[j] # "/"
        /\ to_lowercase(SubSeq(id, 1, i - 1)) \in KnownVendors
        /\ rest = SubSeq(id, i + 1, Len(id))

\* C15: normalize_model_name(id, provider) is the part of id after its first "/"
\* when provider is openrouter, in any case, and the part before that "/" is a
\* known vendor; it is id in every other case.
C15_NormalizeStripsVendorPrefix ==
    Called =>
        /\ IF to_lowercase(arg.hint) = <<"o","p","e","n","r","o","u","t","e","r">>
              /\ \E rest \in {SubSeq(arg.id, i, Len(arg.id)) : i \in 1..(Len(arg.id) + 1)} :
                     VendorPrefixed(arg.id, rest)
           THEN VendorPrefixed(arg.id, last[1])
           ELSE last[1] = arg.id
        /\ (arg.id = <<"a","n","t","h","r","o","p","i","c","/","c","l","a","u","d","e","-","3","-","o","p","u","s">> /\ arg.hint = <<"o","p","e","n","r","o","u","t","e","r">>)
               => last[1] = <<"c","l","a","u","d","e","-","3","-","o","p","u","s">>
        /\ (arg.id = <<"c","l","a","u","d","e","-","3","-","o","p","u","s">> /\ arg.hint = <<"a","n","t","h","r","o","p","i","c">>) => last[1] = <<"c","l","a","u","d","e","-","3","-","o","p","u","s">>

C15_Witness ==
    /\ Called
    /\ arg.id = <<"O","p","e","n","A","I","/","g","p","t","-","4">>
    /\ arg.hint = <<"O","p","e","n","R","o","u","t","e","r">>
    /\ last[1] = <<"g","p","t","-","4">>

(***************************************************************************)
(* Rules of the classifier                                                 *)
(***************************************************************************)
KnownProviders ==
    {<<"o","p","e","n","a","i">>, <<"a","n","t","h","r","o","p","i","c">>, <<"g","e","m","i","n","i">>, <<"m","e","t","a">>, <<"m","i","s","t","r","a","l">>, <<"o","p","e","n","r","o","u","t","e","r">>}

\* The providers one of whose patterns the lowercased id contains.
PatternProviders(lower) ==
    {provider_patterns[i][1] : i \in {j \in 1..Len(provider_patterns) :
        \E k \in 1..Len(provider_patterns[j][2]) : contains(lower, provider_patterns[j][2][k])}}

\* C16: the provider is the hint when the hint is a known provider name, in any
\* case; else the id's segment before its first "/" when that is a known
\* provider name; else a provider one of whose patterns the id contains; else
\* "other".  It is always a known provider name or "other".
C16_ProviderPrecedence ==
    Called =>
        LET lower == to_lowercase(arg.id)
            so == split_once(lower)
            p == last[1].provider
        IN  /\ p \in KnownProviders \cup {<<"o","t","h","e","r">>}
            /\ IF to_lowercase(arg.hint) \in KnownProviders THEN p = to_lowercase(arg.hint)
               ELSE IF so # <<>> /\ so[1] \in KnownProviders THEN p = so[1]
               ELSE IF PatternProviders(lower) # {} THEN p \in PatternProviders(lower)
               ELSE p = <<"o","t","h","e","r">>

C16_Witness ==
    /\ Called
    /\ arg.id = <<"A","n","t","h","r","o","p","i","c","/","g","p","t","-","4">>
    /\ arg.hint = <<"a","z","u","r","e">>
    /\ last[1].provider = <<"a","n","t","h","r","o","p","i","c">>

\* C17: is_multimodal is true exactly when the capability list holds "vision" or
\* the series holds the substring "Vision".
C17_MultimodalIffVision ==
    Called =>
        (last[1].is_multimodal <=>
            (<<"v","i","s","i","o","n">> \in Range(last[1].capabilities) \/ contains(last[1].series, <<"V","i","s","i","o","n">>)))

C17_Witness == Called /\ last[1].is_multimodal /\ arg.id = <<"c","l","a","u","d","e","-","3","-","s","o","n","n","e","t">>

HasExperimentalKeyword(id) ==
    \E w \in {<<"a","l","p","h","a">>, <<"b","e","t","a">>, <<"e","x","p","e","r","i","m","e","n","t","a","l">>} : contains(to_lowercase(id), w)

\* C18 as stated: in every classification, the image-generation and embedding
\* shapes included, is_experimental is true exactly when the lowercased id holds
\* "alpha", "beta" or "experimental".
C18_ExperimentalIffKeyword ==
    Called => (last[1].is_experimental <=> HasExperimentalKeyword(arg.id))

\* C18 as amended: on the standard path is_experimental is true exactly when the
\* lowercased id holds "alpha", "beta" or "experimental"; the image-generation and
\* embedding shapes have is_experimental false.
C18_ExperimentalOnStandardPath ==
    /\ (Called /\ ~ShortCircuits(arg.id)) =>
           (last[1].is_experimental <=> HasExperimentalKeyword(arg.id))
    /\ (Called /\ ShortCircuits(arg.id)) => ~last[1].is_experimental

C18_Witness ==
    /\ Called
    /\ arg.id = <<"g","p","t","-","4","-","v","i","s","i","o","n","-","b","e","t","a">>
    /\ last[1].is_experimental

MetadataFields ==
    {"provider", "series", "model_type", "variant", "context", "capabilities",
     "is_multimodal", "is_experimental", "display_name"}

\* C19: every call returns a complete metadata record, and an id that matches no
\* rule, such as the empty id, with no usable hint yields provider "other",
\* series "General", type "Standard", context 0 and capabilities ["chat"].
C19_ClassifyNeverFails ==
    Called =>
        /\ DOMAIN last[1] = MetadataFields
        /\ (arg.id \in {<<>>, <<"t","e","x","t">>} /\ arg.hint \in {<<>>, <<"a","z","u","r","e">>}) =>
               /\ last[1].provider = <<"o","t","h","e","r">>
               /\ last[1].series = <<"G","e","n","e","r","a","l">>
               /\ last[1].model_type = <<"S","t","a","n","d","a","r","d">>
               /\ last[1].context = 0
               /\ last[1].capabilities = <<<<"c","h","a","t">>>>

C19_Witness == Called /\ arg.id = <<>> /\ arg.hint = <<>> /\ last[1].provider = <<"o","t","h","e","r">>

RecognizedProperties ==
    {<<"p","r","o","v","i","d","e","r">>, <<"f","a","m","i","l","y">>, <<"t","y","p","e">>, <<"s","e","r","i","e","s">>, <<"v","a","r","i","a","n","t">>, <<"c","a","p","a","b","i","l","i","t","y">>,
     <<"c","o","n","t","e","x","t","_","w","i","n","d","o","w">>, <<"m","u","l","t","i","m","o","d","a","l">>}

Occurrences(list, x) == Cardinality({i \in 1..Len(list) : list[i] = x})

\* The groups of a result as a set of (value, members), the members of a group
\* taken as a collection: each member with the number of times it is held.
GroupSet(result) ==
    {<<result[i].property_value,
       [m \in Range(result[i].models) |-> Occurrences(result[i].models, m)]>> :
        i \in 1..Len(result)}

\* C20: for a recognized property name, classify_models_by_property returns
\* exactly one group per distinct non-empty value occurring in the input, each
\* group holding every model that has that value (once per occurrence of the
\* value in the model, adjacent in the input or not) and no other model; the set
\* of (value, members) groups, members taken as a collection, is the same for
\* every permutation of the input list.
C20_GroupByValueIdentity ==
    (Called /\ arg \in RecognizedProperties) =>
        LET result == last[1]
            values_of(i) == property_values(internal[i], arg)
            member(i) == convert_internal_models_to_proto(<<internal[i]>>)[1]
        IN  /\ \A i, j \in 1..Len(result) :
                   i # j => result[i].property_value # result[j].property_value
            /\ {result[i].property_value : i \in 1..Len(result)}
                   = UNION {Range(values_of(i)) : i \in 1..Len(internal)} \ {<<>>}
            /\ \A g \in 1..Len(result) :
                   /\ \A i \in 1..Len(internal) :
                          Occurrences(result[g].models, member(i))
                              = Cardinality(UNION {
                                    {<<j, n>> : n \in {n \in 1..Len(values_of(j)) :
                                        values_of(j)[n] = result[g].property_value}} :
                                    j \in {j \in 1..Len(internal) : member(j) = member(i)}})
                   /\ Range(result[g].models)
                          \subseteq {member(i) : i \in 1..Len(internal)}
            /\ \A p \in PermutationsOf(internal) :
                   GroupSet(classify_models_by_property(0, p, arg)) = GroupSet(result)

\* Two models of one provider with a model of another provider between them end
\* in one group.
C20_Witness ==
    /\ Called
    /\ arg = <<"p","r","o","v","i","d","e","r">>
    /\ Len(internal) = 3
    /\ internal[1] # internal[3]
    /\ internal[1].provider = internal[3].provider
    /\ internal[2].provider \notin {internal[1].provider, <<>>}
    /\ Len(last[1]) = 2
    /\ \E g \in 1..2 : Len(last[1][g].models) = 2

\* C21: for a property name outside the eight recognized names, whatever the
\* input list, classify_models_by_property returns the empty list of groups.
C21_UnknownPropertyYieldsNoGroups ==
    (Called /\ arg \notin RecognizedProperties) => last[1] = <<>>

C21_Witness ==
    /\ Called
    /\ arg = <<"P","r","o","v","i","d","e","r">>
    /\ Len(internal) = 3
    /\ \A i \in 1..3 : internal[i].provider # <<>>
    /\ last[1] = <<>>

C23_FixedThresholdBuckets ==
    Called =>
        last[1] = IF arg <= 10000 THEN <<"S","m","a","l","l"," ","(","<"," ","1","0","K",")">>
                  ELSE IF arg <= 100000 THEN <<"M","e","d","i","u","m"," ","(","1","0","K","-","1","0","0","K",")">>
                  ELSE IF arg <= 200000 THEN <<"L","a","r","g","e"," ","(","1","0","0","K","-","2","0","0","K",")">>
                  ELSE <<"V","e","r","y"," ","L","a","r","g","e"," ","(",">"," ","2","0","0","K",")">>

\* C24: in the hierarchical endpoint an enriched model keeps a non-zero context
\* size and a non-empty display name of the request; a zero context size and a
\* missing display name are filled from the classifier's metadata; the provider
\* is the classified provider and original_provider is the provider of the
\* request. A model the loop has not reached is as converted from the request.
C24_EnrichmentKeepsSuppliedValues ==
    pc \in {"enrich", "build", "done"} =>
        \A i \in 1..Len(internal) :
            LET pm == arg[i]
                meta == classify_model(seed, 1, pm.id, pm.provider)
            IN  IF i <= enriched
                THEN /\ internal[i].context_size =
                            IF pm.context_size # 0 THEN pm.context_size ELSE meta.context
                     /\ internal[i].display_name =
                            IF pm.display_name # <<>> THEN <<pm.display_name>>
                            ELSE <<meta.display_name>>
                     /\ internal[i].provider = meta.provider
                     /\ internal[i].original_provider = <<pm.provider>>
                ELSE internal[i] = convert_proto_model(pm)

\* A model of the request with context size 4096 and display name "My Claude"
\* keeps both, and a model of the request without provider is enriched to
\* provider "openai", its original_provider staying empty.
C24_Witness ==
    /\ pc = "enrich"
    /\ enriched = 2
    /\ arg[1].context_size = 4096
    /\ internal[1].context_size = 4096
    /\ internal[1].display_name = <<<<"M","y"," ","C","l","a","u","d","e">>>>
    /\ arg[2].provider = <<>>
    /\ internal[2].provider = <<"o","p","e","n","a","i">>
    /\ internal[2].original_provider = <<<<>>>>
    /\ internal[2].context_size # 0

\* C25: whatever the request, the criteria operation answers with the status
\* Unimplemented, and its answer carries no classification: no model was
\* converted, sorted or grouped. No other operation answers with that status.
C25_CriteriaNotImplemented ==
    /\ pc = "rejected" =>
           /\ last = <<[code |-> "Unimplemented",
                        message |-> <<"C","l","a","s","s","i","f","y","M","o","d","e","l","s","W","i","t","h","C","r","i","t","e","r","i","a"," ","i","s"," ","n","o","t"," ","y","e","t"," ","i","m","p","l","e","m","e","n","t","e","d">>]>>
           /\ internal = <<>> /\ sorted = <<>> /\ root_groups = <<>>
    /\ pc # "rejected" => last = <<>>

C25_Witness ==
    /\ pc = "rejected"
    /\ Len(arg) = 3
    /\ last[1].code = "Unimplemented"

\* The rank of a model's provider, the provider taken in lowercase.
ProviderRank(m) ==
    LET p == to_lowercase(m.provider)
    IN  IF p = <<"g","e","m","i","n","i">> THEN 0
        ELSE IF p = <<"o","p","e","n","a","i">> THEN 1
        ELSE IF p = <<"o","p","e","n","r","o","u","t","e","r">> THEN 2
        ELSE IF p \in {<<"a","n","t","h","r","o","p","i","c">>, <<"c","l","a","u","d","e">>} THEN 3
        ELSE 4

\* C26: in the output of sort_models a model never comes before a model of
\* better provider rank: gemini, then openai, then openrouter, then anthropic
\* and claude, then every other provider, whatever the types, versions and names.
C26_ProviderRankFirst ==
    pc \in {"sorted", "resorted"} =>
        \A i, j \in 1..Len(sorted) :
            i < j => ProviderRank(sorted[i]) <= ProviderRank(sorted[j])

\* Three models of three ranks, given in descending rank, come out ascending.
C26_Witness ==
    /\ pc = "sorted"
    /\ Len(internal) = 3
    /\ ProviderRank(internal[1]) > ProviderRank(internal[2])
    /\ ProviderRank(internal[2]) > ProviderRank(internal[3])
    /\ internal[2].provider = <<"O","p","e","n","R","o","u","t","e","r">>
    /\ sorted = <<internal[3], internal[2], internal[1]>>

\* C27: no step of a classify call changes the shared classifier, and whatever
\* the interleaving with the calls of other tasks, before or during the call,
\* the answer of a call is the answer of the same call made alone on the
\* classifier as constructed.
C27_CallsIndependent ==
    [][/\ seed' = seed
       /\ \A t \in 1..MaxTasks :
              last'[t] # <<>> =>
                  last'[t] = <<classify_model(seed, 1, arg[t].id, arg[t].hint)>>]_vars

\* The call of task 1 has answered, with the context size its classifier
\* gives "gpt-4o", while the call of task 2 for another id is running.
C27_Witness ==
    /\ pc[1] = "done" /\ pc[2] = "running"
    /\ arg[1].id = <<"g","p","t","-","4","o">> /\ arg[2].id = <<"G","P","T","-","4","-","3","2","k">>
    /\ internal[2] = <<"g","p","t","-","4","-","3","2","k">>
    /\ last[1][1].context = 8192

LastOf(groups) == groups[Len(groups)]

\* One sibling is appended to the groups, none of which changes.
OpensSibling(groups, after, value) ==
    /\ Len(after) = Len(groups) + 1
    /\ SubSeq(after, 1, Len(groups)) = groups
    /\ LastOf(after).group_value = value

\* The siblings stay as many, and none but the last one changes.
KeepsSibling(groups, after, value) ==
    /\ Len(after) = Len(groups)
    /\ SubSeq(after, 1, Len(groups) - 1) = SubSeq(groups, 1, Len(groups) - 1)
    /\ LastOf(after).group_value = value

\* C28: in every iteration of the scan, at each of the three levels a sibling is
\* appended exactly when no group is open at the level (none was opened yet, or
\* a group was just opened at a higher level) or the key of the model differs
\* from the value of the group opened last; otherwise only that last group
\* changes. No earlier group changes at any level, the open groups are the
\* last ones, the model is pushed to the last version group, and the answer
\* keeps the groups in the order they were opened.
C28_GroupsAppendOnly ==
    [][/\ (pc = "build" /\ sorted # <<>> /\ pc' = "build") =>
            LET m == Head(sorted)
                op == root_groups = <<>>
                          \/ LastOf(root_groups).group_value # provider_key(m)
                types == IF op THEN <<>> ELSE LastOf(root_groups).children
                ot == types = <<>> \/ LastOf(types).group_value # type_key(m)
                versions == IF ot THEN <<>> ELSE LastOf(types).children
                ov == versions = <<>> \/ LastOf(versions).group_value # version_key(m)
                models == IF ov THEN <<>> ELSE LastOf(versions).models
                types_after == LastOf(root_groups').children
                versions_after == LastOf(types_after).children
            IN  /\ IF op THEN OpensSibling(root_groups, root_groups', provider_key(m))
                         ELSE KeepsSibling(root_groups, root_groups', provider_key(m))
                /\ IF ot THEN OpensSibling(types, types_after, type_key(m))
                         ELSE KeepsSibling(types, types_after, type_key(m))
                /\ IF ov THEN OpensSibling(versions, versions_after, version_key(m))
                         ELSE KeepsSibling(versions, versions_after, version_key(m))
                /\ LastOf(versions_after).models = Append(models, m)
                /\ LastOf(root_groups').models = <<>> /\ LastOf(types_after).models = <<>>
                /\ LastOf(versions_after).children = <<>>
                /\ provider_idx' = <<Len(root_groups')>>
                /\ type_idx' = <<Len(types_after)>>
                /\ version_idx' = <<Len(versions_after)>>
       /\ (pc = "build" /\ pc' = "done") => root_groups' = root_groups]_vars

\* The scan has opened a second type group in the first provider group, and
\* then a second provider group.
C28_Witness ==
    /\ pc = "done"
    /\ Len(root_groups) = 2
    /\ Len(root_groups[1].children) = 2
    /\ Len(arg) = 3

RECURSIVE Concat(_)
Concat(lists) == IF lists = <<>> THEN <<>> ELSE Head(lists) \o Concat(Tail(lists))

\* The models of the version groups of a tree, depth first and left to right.
ModelsOfTree(groups) ==
    Concat([p \in 1..Len(groups) |->
        Concat([t \in 1..Len(groups[p].children) |->
            Concat([v \in 1..Len(groups[p].children[t].children) |->
                groups[p].children[t].children[v].models])])])

\* C29: the models of the version groups built so far, depth first and left to
\* right, followed by the models still to scan, are the caller's list as sorted
\* by sort_models, so the tree of the answer holds exactly that list; and from
\* the call of build_model_hierarchy on, the caller's list does not change.
C29_NoModelLostOrDuplicated ==
    /\ [](pc \in {"build", "done"} =>
             ModelsOfTree(root_groups) \o sorted = sort_models(internal))
    /\ [][pc' \in {"build", "done"} => internal' = internal]_vars

\* An answer for three models which the sort has reordered.
C29_Witness ==
    /\ pc = "done"
    /\ Len(internal) = 3
    /\ ModelsOfTree(root_groups) # internal
    /\ Len(ModelsOfTree(root_groups)) = 3

====
